---- MODULE Spec2Model ----
(***************************************************************************)
(* Model of the positioning stack of SScanSS-2                             *)
(* (sscanss/core/instrument/instrument.py, sscanss/ui/commands/control.py).*)
(*                                                                         *)
(* Rigid transforms (Matrix44) are modelled exactly on the planar lattice: *)
(* a transform is a rotation by r quarter turns followed by an integer     *)
(* translation (x, y).  Composition and inversion are the matrix ones, so  *)
(* the group is non-commutative and an inverse really cancels.             *)
(* Revolute joint values are counted in quarter turns, prismatic joint     *)
(* values in lattice units.                                                *)
(*                                                                         *)
(* The main window presenter (sscanss/ui/windows/main/presenter.py) is     *)
(* modelled with the simulation it starts and stops, the recent project    *)
(* list and the save functions.  Four specifications share the variables:  *)
(* Spec (the stack), SpecSim (presenter and simulation worker),            *)
(* SpecRecent (updateRecentProjects) and SpecSave (saveProject and         *)
(* confirmSave).                                                           *)
(***************************************************************************)
EXTENDS Integers, Sequences, FiniteSets, TLC

(* ------------------------------ bounds -------------------------------- *)
\* number of operations applied to the freshly loaded instrument
MaxOps == 3

(* --------------------------- rigid transforms ------------------------- *)
Mat(r, x, y) == [r |-> r, x |-> x, y |-> y]

Identity == Mat(0, 0, 0)

\* the rotation part of a transform applied to the vector (x, y)
RotX(r, x, y) == CASE r = 0 -> x [] r = 1 -> 0 - y [] r = 2 -> 0 - x [] OTHER -> y
RotY(r, x, y) == CASE r = 0 -> y [] r = 1 -> x [] r = 2 -> 0 - y [] OTHER -> 0 - x

\* a @ b
MatMul(a, b) ==
    Mat((a.r + b.r) % 4, RotX(a.r, b.x, b.y) + a.x, RotY(a.r, b.x, b.y) + a.y)

\* m.inverse()
Inverse(m) ==
    LET ri == (4 - m.r) % 4
    IN  Mat(ri, 0 - RotX(ri, m.x, m.y), 0 - RotY(ri, m.x, m.y))

(* ------------------------- the instrument's chains -------------------- *)
\* positioners of the instrument description: name -> static link data.
\* type "R" is revolute (about the lattice normal), "P" prismatic along axis.
Chains == {"F", "A", "B"}

LinkData(type, ax, ay, vx, vy, lo, hi) ==
    [type |-> type, ax |-> ax, ay |-> ay, vx |-> vx, vy |-> vy,
     lower_limit |-> lo, upper_limit |-> hi]

ChainLinks ==
    [c \in Chains |->
        CASE c = "F" -> << LinkData("P", 1, 0, 1, 0, 0, 1),
                           LinkData("R", 0, 0, 0, 1, 0, 3) >>
          [] c = "A" -> << LinkData("R", 0, 0, 2, 0, 0, 3) >>
          [] OTHER   -> << LinkData("P", 0, 1, 0, 1, 0, 0) >>]

\* base matrices a positioner can be given
Bases == {Identity, Mat(1, 0, 2)}

\* base matrix of the instrument description
DefaultBase == [c \in Chains |-> IF c = "B" THEN Mat(1, 0, 2) ELSE Identity]

\* joint values callers request: the resting value and one unit away from it
Vals == {0, 1}

VARIABLES
    base,           \* base[c]: SerialManipulator.base
    offset,         \* offset[c][i]: current joint value of link i of chain c
    set_point,      \* set_point[c][i]: Link.set_point
    locked,         \* locked[c][i]: Link.locked
    ignore_limits,  \* ignore_limits[c][i]: Link.ignore_limits
    fixed,          \* PositioningStack.fixed
    auxiliary,      \* PositioningStack.auxiliary
    link_matrix,    \* PositioningStack.link_matrix
    tool_link,      \* PositioningStack.tool_link
    call,           \* the last operation applied and its arguments
    ret,            \* value returned by the last fkine call
    delegated,      \* the chain fkine calls the last stack fkine call made
    twin,           \* value the last fkine call returns from the same state
                    \* for a joint vector that differs at locked links only
    ops,            \* number of operations applied so far
    alignment,      \* model.alignment is not None
    measurement_points, \* model.measurement_points.size
    simulation,     \* model.simulation
    detached,       \* number of running simulations that model.simulation
                    \* no longer refers to
    recent_projects, \* view.recent_projects
    clean,          \* view.undo_stack.isClean()
    save_path,      \* model.save_path
    returned,       \* value returned by the last presenter call, or the
                    \* error the last instrument call raised
    name,           \* PositioningStack.name
    jaws,           \* instrument.jaws
    detector,       \* a detector of instrument.detectors
    wrapped,        \* wrapped[c]: who has wrapped the fkine of positioner c
    undo_stack,     \* view.undo_stack
    script          \* the last Script(template) call and what became of it

\* the state of the positioning stack and what is remembered of the last call
stackVars == << base, offset, set_point, locked, ignore_limits, fixed, auxiliary,
                link_matrix, tool_link >>

\* the state of the main window: project, undo stack and simulation
appVars == << alignment, measurement_points, simulation, detached,
              recent_projects, clean, save_path, returned, name, jaws,
              detector, wrapped, undo_stack, script >>

\* the instrument's parts and the objects around it that only the
\* specifications made for them follow
restVars == << name, jaws, detector, wrapped, undo_stack, script >>

vars == << base, offset, set_point, locked, ignore_limits, fixed, auxiliary,
           link_matrix, tool_link, call, ret, delegated, twin, ops,
           alignment, measurement_points, simulation, detached,
           recent_projects, clean, save_path, returned, name, jaws,
           detector, wrapped, undo_stack, script >>

\* Python's None
None == [none |-> TRUE]

(* ------------------------------ program state ------------------------- *)
\* the program state as one value, so that a method body is a composition
\* of the steps it performs
Cur ==
    [base |-> base, offset |-> offset, set_point |-> set_point,
     locked |-> locked, ignore_limits |-> ignore_limits, fixed |-> fixed,
     auxiliary |-> auxiliary, link_matrix |-> link_matrix,
     tool_link |-> tool_link]

Install(s) ==
    /\ base' = s.base
    /\ offset' = s.offset
    /\ set_point' = s.set_point
    /\ locked' = s.locked
    /\ ignore_limits' = s.ignore_limits
    /\ fixed' = s.fixed
    /\ auxiliary' = s.auxiliary
    /\ link_matrix' = s.link_matrix
    /\ tool_link' = s.tool_link

Min(a, b) == IF a < b THEN a ELSE b
Max(a, b) == IF a < b THEN b ELSE a

\* q[start:end] of a Python list (0-based, end exclusive, truncating)
PySlice(q, start, end) ==
    IF Min(end, Len(q)) <= start THEN << >>
    ELSE SubSeq(q, start + 1, Min(end, Len(q)))

(* ---------------- kinematic chain (SerialManipulator, Link) ----------- *)
\* SerialManipulator.numberOfLinks
ChainNumberOfLinks(c) == Len(ChainLinks[c])

\* resting value of every joint
RestValue == 0

\* local transform of one link at joint value v: the offset_vector
\* translation followed by the joint's own motion
LinkTransform(l, v) ==
    MatMul(Mat(0, l.vx, l.vy),
           IF l.type = "R" THEN Mat(v % 4, 0, 0) ELSE Mat(0, l.ax * v, l.ay * v))

RECURSIVE LinkProduct(_, _, _)
\* product of the local transforms of links 1..n of chain c, in link order
LinkProduct(c, off, n) ==
    IF n = 0 THEN Identity
    ELSE MatMul(LinkProduct(c, off, n - 1), LinkTransform(ChainLinks[c][n], off[n]))

\* SerialManipulator.pose
ChainPose(s, c) ==
    MatMul(s.base[c], LinkProduct(c, s.offset[c], ChainNumberOfLinks(c)))

\* SerialManipulator.set_points
ChainSetPoints(s, c) == s.set_point[c]

\* SerialManipulator.configuration
ChainConfiguration(s, c) == s.offset[c]

\* the supplied value limited to [lower_limit, upper_limit]
Clamp(l, v) == Max(l.lower_limit, Min(l.upper_limit, v))

\* value a link takes when fkine is given v for it
EffectiveValue(s, c, i, v, ignore_locks) ==
    IF s.locked[c][i] /\ ~ignore_locks THEN s.set_point[c][i]
    ELSE IF s.ignore_limits[c][i] THEN v
    ELSE Clamp(ChainLinks[c][i], v)

\* SerialManipulator.fkine(q, ignore_locks, setpoint): the state afterwards;
\* the returned matrix is the chain's pose in that state
ChainFkine(s, c, q, ignore_locks, setpoint) ==
    [s EXCEPT
        !.offset[c] = [i \in 1..ChainNumberOfLinks(c) |->
                          EffectiveValue(s, c, i, q[i], ignore_locks)],
        !.set_point[c] = [i \in 1..ChainNumberOfLinks(c) |->
                          IF setpoint THEN q[i] ELSE s.set_point[c][i]]]

\* SerialManipulator.resetOffsets()
ChainResetOffsets(s, c) ==
    [s EXCEPT
        !.offset[c] = [i \in 1..ChainNumberOfLinks(c) |-> RestValue],
        !.set_point[c] = [i \in 1..ChainNumberOfLinks(c) |-> RestValue]]

\* SerialManipulator.reset()
ChainReset(s, c) ==
    [s EXCEPT
        !.offset[c] = [i \in 1..ChainNumberOfLinks(c) |-> RestValue],
        !.set_point[c] = [i \in 1..ChainNumberOfLinks(c) |-> RestValue]]

(* ------------------------ instrument description ---------------------- *)
\* instrument.positioning_stacks: stack key -> positioner keys, the fixed
\* chain first. "Broken" and "Lost" list a key that instrument.positioners
\* does not have
PositioningStacks ==
    [k \in {"Fixed", "Pair", "Swapped", "Broken", "Lost"} |->
        CASE k = "Fixed"   -> << "F" >>
          [] k = "Pair"    -> << "F", "A" >>
          [] k = "Swapped" -> << "A", "B" >>
          [] k = "Broken"  -> << "F", "X" >>
          [] OTHER         -> << "X" >>]

\* list(self.positioning_stacks.keys())[0]
FirstKey == "Fixed"

(* --------------------------- PositioningStack ------------------------- *)
\* the chains of the stack in stack order
StackChains(s) == << s.fixed >> \o s.auxiliary

InStack(s, c) == \E k \in 1..Len(StackChains(s)) : StackChains(s)[k] = c

\* a constructor that leaves the tool link at the identity
StackInitNoToolLink(s, f) ==
    [ChainReset(s, f) EXCEPT !.fixed = f, !.tool_link = Identity,
                             !.auxiliary = << >>, !.link_matrix = << >>]

\* PositioningStack.__init__(name, fixed)
StackInit(s, f) ==
    LET s1 == ChainReset(s, f)
    IN  [s1 EXCEPT !.fixed = f,
                   !.tool_link = Inverse(ChainPose(s1, f)),
                   !.auxiliary = << >>,
                   !.link_matrix = << >>]

\* __defaultPoseInverse that captures the pose without resetting the offsets
DefaultPoseInverseNoReset(s, c) ==
    LET q  == ChainSetPoints(s, c)
        m  == Inverse(ChainPose(s, c))
        s2 == ChainFkine(s, c, q, TRUE, TRUE)
    IN  [state |-> s2, matrix |-> m]

\* __defaultPoseInverse that does not move the chain back to its set-points
DefaultPoseInverseNoRestore(s, c) ==
    LET s1 == ChainResetOffsets(s, c)
    IN  [state |-> s1, matrix |-> Inverse(ChainPose(s1, c))]

\* PositioningStack.__defaultPoseInverse(positioner)
DefaultPoseInverse(s, c) ==
    LET q  == ChainSetPoints(s, c)
        s1 == ChainResetOffsets(s, c)
        m  == Inverse(ChainPose(s1, c))
        s2 == ChainFkine(s1, c, q, TRUE, TRUE)
    IN  [state |-> s2, matrix |-> m]

\* self.auxiliary.index(positioner)
AuxIndex(s, c) ==
    CHOOSE k \in 1..Len(s.auxiliary) :
        /\ s.auxiliary[k] = c
        /\ \A j \in 1..(k - 1) : s.auxiliary[j] # c

\* changeBaseMatrix that stores the matrix at the chain's own index
ChangeBaseMatrixSameIndex(s, c, m) ==
    LET index == AuxIndex(s, c)
        s1 == [s EXCEPT !.base[c] = m]
        d  == DefaultPoseInverse(s1, c)
    IN  IF c # s1.auxiliary[Len(s1.auxiliary)]
        THEN [d.state EXCEPT !.link_matrix[index] = d.matrix]
        ELSE [d.state EXCEPT !.tool_link = d.matrix]

\* changeBaseMatrix that only replaces the base
ChangeBaseMatrixBaseOnly(s, c, m) == [s EXCEPT !.base[c] = m]

\* PositioningStack.changeBaseMatrix(positioner, matrix)
ChangeBaseMatrix(s, c, m) ==
    LET index == AuxIndex(s, c)
        s1 == [s EXCEPT !.base[c] = m]
        d  == DefaultPoseInverse(s1, c)
    IN  IF c # s1.auxiliary[Len(s1.auxiliary)]
        THEN [d.state EXCEPT !.link_matrix[index + 1] = d.matrix]
        ELSE [d.state EXCEPT !.tool_link = d.matrix]

\* addPositioner that forgets to store the link matrix
AddPositionerNoLink(s, c) ==
    LET s1 == ChainReset(s, c)
        s2 == [s1 EXCEPT !.tool_link = Inverse(ChainPose(s1, c))]
    IN  [s2 EXCEPT !.auxiliary = Append(s2.auxiliary, c)]

\* addPositioner that captures tool_link without leaving the chain reset
AddPositionerRestoring(s, c) ==
    LET t  == DefaultPoseInverse(s, c)
        s2 == [t.state EXCEPT !.tool_link = t.matrix]
        last_positioner == IF s2.auxiliary # << >>
                           THEN s2.auxiliary[Len(s2.auxiliary)] ELSE s2.fixed
        s3 == [s2 EXCEPT !.auxiliary = Append(s2.auxiliary, c)]
        d  == DefaultPoseInverse(s3, last_positioner)
    IN  [d.state EXCEPT !.link_matrix = Append(d.state.link_matrix, d.matrix)]

\* PositioningStack.addPositioner(positioner)
AddPositioner(s, c) ==
    LET s1 == ChainReset(s, c)
        s2 == [s1 EXCEPT !.tool_link = Inverse(ChainPose(s1, c))]
        last_positioner == IF s2.auxiliary # << >>
                           THEN s2.auxiliary[Len(s2.auxiliary)] ELSE s2.fixed
        s3 == [s2 EXCEPT !.auxiliary = Append(s2.auxiliary, c)]
        d  == DefaultPoseInverse(s3, last_positioner)
    IN  [d.state EXCEPT !.link_matrix = Append(d.state.link_matrix, d.matrix)]

\* no error was raised
NoError == "-"

RECURSIVE LoadRun(_, _, _, _)
\* Instrument.loadPositioningStack(stack_key) after the first n positioner
\* keys: instrument.positioning_stack and its name, and the error raised
LoadRun(s, nm, stack_key, n) ==
    IF n = 0 THEN [state |-> s, name |-> nm, raised |-> NoError]
    ELSE LET prev == LoadRun(s, nm, stack_key, n - 1)
             key  == PositioningStacks[stack_key][n]
         IN  IF prev.raised # NoError THEN prev
             ELSE IF key \notin Chains THEN [prev EXCEPT !.raised = "KeyError"]
             ELSE IF n = 1
                  THEN [state |-> StackInit(prev.state, key), name |-> stack_key,
                        raised |-> NoError]
                  ELSE [prev EXCEPT !.state = AddPositioner(prev.state, key)]

\* a load that resolves every positioner key before it builds the stack
LoadPositioningStackResolvingFirst(s, nm, stack_key) ==
    IF stack_key \notin DOMAIN PositioningStacks
    THEN [state |-> s, name |-> nm, raised |-> "KeyError"]
    ELSE IF \E n \in 1..Len(PositioningStacks[stack_key]) :
                PositioningStacks[stack_key][n] \notin Chains
         THEN [state |-> s, name |-> nm, raised |-> "KeyError"]
         ELSE LoadRun(s, nm, stack_key, Len(PositioningStacks[stack_key]))

\* Instrument.loadPositioningStack(stack_key)
LoadPositioningStack(s, nm, stack_key) ==
    IF stack_key \notin DOMAIN PositioningStacks
    THEN [state |-> s, name |-> nm, raised |-> "KeyError"]
    ELSE LoadRun(s, nm, stack_key, Len(PositioningStacks[stack_key]))

RECURSIVE AuxPoseProduct(_, _)
\* the fold of PositioningStack.pose over the first n (link, positioner) pairs
AuxPoseProduct(s, n) ==
    IF n = 0 THEN ChainPose(s, s.fixed)
    ELSE MatMul(AuxPoseProduct(s, n - 1),
                MatMul(s.link_matrix[n], ChainPose(s, s.auxiliary[n])))

\* pose that leaves the calibration transforms out
StackPoseNoLinks(s) ==
    LET P(n) == ChainPose(s, StackChains(s)[n])
    IN  CASE Len(s.auxiliary) = 0 -> P(1)
          [] Len(s.auxiliary) = 1 -> MatMul(P(1), P(2))
          [] OTHER -> MatMul(MatMul(P(1), P(2)), P(3))

\* PositioningStack.pose; zip stops at the shorter of the two lists
StackPose(s) == AuxPoseProduct(s, Min(Len(s.link_matrix), Len(s.auxiliary)))

\* PositioningStack.tool_pose
ToolPose(s) == MatMul(StackPose(s), s.tool_link)

RECURSIVE SumLinks(_, _)
SumLinks(chains, n) ==
    IF n = 0 THEN 0 ELSE SumLinks(chains, n - 1) + ChainNumberOfLinks(chains[n])

\* PositioningStack.numberOfLinks
NumberOfLinks(s) ==
    ChainNumberOfLinks(s.fixed) + SumLinks(s.auxiliary, Len(s.auxiliary))

\* slice bounds that start on the last entry of the previous slice
NextSliceOverlapping(end, positioner) ==
    [start |-> end - 1, end |-> end - 1 + ChainNumberOfLinks(positioner)]

\* start, end = end, end + positioner.numberOfLinks
NextSlice(end, positioner) ==
    [start |-> end, end |-> end + ChainNumberOfLinks(positioner)]

RECURSIVE FkineRun(_, _, _, _, _)
\* PositioningStack.fkine after the fixed chain and the first n auxiliaries:
\* the state, the matrix T, the slice end, and the delegated calls so far
FkineRun(s, q, ignore_locks, setpoint, n) ==
    IF n = 0
    THEN LET start == 0
             end   == ChainNumberOfLinks(s.fixed)
             st    == ChainFkine(s, s.fixed, PySlice(q, start, end),
                                 ignore_locks, setpoint)
         IN  [state |-> st, T |-> ChainPose(st, s.fixed), end |-> end,
              calls |-> << [chain |-> s.fixed, start |-> start, end |-> end,
                            q |-> PySlice(q, start, end),
                            ignore_locks |-> ignore_locks,
                            setpoint |-> setpoint] >>]
    ELSE LET prev       == FkineRun(s, q, ignore_locks, setpoint, n - 1)
             positioner == s.auxiliary[n]
             start      == NextSlice(prev.end, positioner).start
             end        == NextSlice(prev.end, positioner).end
             st         == ChainFkine(prev.state, positioner,
                                      PySlice(q, start, end), ignore_locks, setpoint)
         IN  [state |-> st,
              T |-> MatMul(prev.T, MatMul(s.link_matrix[n], ChainPose(st, positioner))),
              end |-> end,
              calls |-> Append(prev.calls,
                               [chain |-> positioner, start |-> start, end |-> end,
                                q |-> PySlice(q, start, end),
                                ignore_locks |-> ignore_locks,
                                setpoint |-> setpoint])]

\* fkine that drives every chain with ignore_locks set
StackFkineIgnoringLocks(s, q, ignore_locks, setpoint) ==
    FkineRun(s, q, TRUE, setpoint, Min(Len(s.link_matrix), Len(s.auxiliary)))

\* PositioningStack.fkine(q, ignore_locks, setpoint)
StackFkine(s, q, ignore_locks, setpoint) ==
    FkineRun(s, q, ignore_locks, setpoint,
             Min(Len(s.link_matrix), Len(s.auxiliary)))

RECURSIVE ExtendAux(_, _, _)
\* the list obtained by extending the fixed chain's entries with those of the
\* first n auxiliaries; entries[c] are the entries of chain c
ExtendAux(s, entries, n) ==
    IF n = 0 THEN entries[s.fixed]
    ELSE ExtendAux(s, entries, n - 1) \o entries[s.auxiliary[n]]

\* SerialManipulator.links, each link named by its chain and position
ChainLinkIds(s, c) == [i \in 1..ChainNumberOfLinks(c) |-> << c, i >>]

\* PositioningStack.configuration
StackConfiguration(s) ==
    ExtendAux(s, [c \in Chains |-> ChainConfiguration(s, c)], Len(s.auxiliary))

\* PositioningStack.links
StackLinks(s) ==
    ExtendAux(s, [c \in Chains |-> ChainLinkIds(s, c)], Len(s.auxiliary))

RECURSIVE AuxSetPointsReversed(_, _)
AuxSetPointsReversed(s, n) ==
    IF n = 0 THEN << >>
    ELSE ChainSetPoints(s, s.auxiliary[n]) \o AuxSetPointsReversed(s, n - 1)

\* set_points that lists the auxiliaries last-attached first
StackSetPointsReversed(s) ==
    ChainSetPoints(s, s.fixed) \o AuxSetPointsReversed(s, Len(s.auxiliary))

\* PositioningStack.set_points (getter)
StackSetPoints(s) ==
    ExtendAux(s, [c \in Chains |-> ChainSetPoints(s, c)], Len(s.auxiliary))

\* PositioningStack.bounds
StackBounds(s) ==
    [k \in 1..Len(StackLinks(s)) |->
        << ChainLinks[StackLinks(s)[k][1]][StackLinks(s)[k][2]].lower_limit,
           ChainLinks[StackLinks(s)[k][1]][StackLinks(s)[k][2]].upper_limit >>]

\* position of link i of chain c in stack.links (0 when c is not in the stack)
RECURSIVE LinkPosition(_, _, _, _)
LinkPosition(s, c, i, n) ==
    IF n = 0 THEN (IF s.fixed = c THEN i ELSE 0)
    ELSE IF s.auxiliary[n] = c
         THEN ChainNumberOfLinks(s.fixed) + SumLinks(s.auxiliary, n - 1) + i
         ELSE LinkPosition(s, c, i, n - 1)

\* for state, link in zip(flags, stack.links): link.<flag> = state
ZipLinks(s, old, flags) ==
    [c \in Chains |-> [i \in 1..ChainNumberOfLinks(c) |->
        LET k == LinkPosition(s, c, i, Len(s.auxiliary))
        IN  IF k >= 1 /\ k <= Len(flags) THEN flags[k] ELSE old[c][i]]]

\* l.locked for l in stack.links
LockState(s) ==
    [k \in 1..NumberOfLinks(s) |-> s.locked[StackLinks(s)[k][1]][StackLinks(s)[k][2]]]

\* l.ignore_limits for l in stack.links
IgnoreState(s) ==
    [k \in 1..NumberOfLinks(s) |->
        s.ignore_limits[StackLinks(s)[k][1]][StackLinks(s)[k][2]]]

\* LockJoint.changeLockState(lock_state)
ChangeLockState(s, lock_state) ==
    [s EXCEPT !.locked = ZipLinks(s, s.locked, lock_state)]

\* IgnoreJointLimits.changeIgnoreLimitState(ignore_state)
ChangeIgnoreLimitState(s, ignore_state) ==
    [s EXCEPT !.ignore_limits = ZipLinks(s, s.ignore_limits, ignore_state)]

\* a setter that also moves every link to the value it is given
SetPointsMovingLinks(s, q) ==
    [s EXCEPT !.set_point = ZipLinks(s, s.set_point, q),
              !.offset = ZipLinks(s, s.offset, q)]

\* PositioningStack.set_points (setter):
\* for offset, link in zip(q, self.links): link.set_point = offset
SetPoints(s, q) ==
    [s EXCEPT !.set_point = ZipLinks(s, s.set_point, q)]

(* ------------------------------- behaviour ---------------------------- *)
\* the positioners as read from the instrument description
Fresh ==
    [base |-> DefaultBase,
     offset |-> [c \in Chains |-> [i \in 1..ChainNumberOfLinks(c) |-> RestValue]],
     set_point |-> [c \in Chains |-> [i \in 1..ChainNumberOfLinks(c) |-> RestValue]],
     locked |-> [c \in Chains |-> [i \in 1..ChainNumberOfLinks(c) |-> FALSE]],
     ignore_limits |-> [c \in Chains |-> [i \in 1..ChainNumberOfLinks(c) |-> FALSE]],
     fixed |-> "F", auxiliary |-> << >>, link_matrix |-> << >>,
     tool_link |-> Identity]

\* what is remembered of the last operation: its name, its chain and matrix
\* arguments, the joint vector and flags of a fkine call (q2: the joint
\* vector of the twin call), and the set-points the chain argument had
\* before the call
Called(op, chain, matrix, q, q2, ignore_locks, setpoint, before) ==
    [op |-> op, chain |-> chain, matrix |-> matrix, q |-> q, q2 |-> q2,
     ignore_locks |-> ignore_locks, setpoint |-> setpoint, before |-> before]

(* --------------------- jaws, detector, undo stack --------------------- *)
\* a vector of the lattice
Vec(x, y) == << x, y >>

\* pose[0:3, 0:3] @ v
Rotate(pose, v) == Vec(RotX(pose.r, v[1], v[2]), RotY(pose.r, v[1], v[2]))

\* pose[0:3, 3]
Translation(pose) == Vec(pose.x, pose.y)

VecAdd(v, w) == Vec(v[1] + w[1], v[2] + w[2])

\* the positioner of jaws or of a detector that have none
NoPositioner == "-"

\* Jaws.__init__ up to the assignment of the positioner
NewJaws(beam_source, beam_direction) ==
    [initial_source |-> beam_source, beam_source |-> beam_source,
     initial_direction |-> beam_direction, beam_direction |-> beam_direction,
     positioner |-> NoPositioner]

\* Detector.__init__ up to the assignment of the positioner
NewDetector(diffracted_beam) ==
    [initial_beam |-> diffracted_beam, diffracted_beam |-> diffracted_beam,
     positioner |-> NoPositioner]

\* the incident jaws and the detector of the instrument description
DescribedJaws == NewJaws(Vec(0 - 2, 0), Vec(1, 0))
DescribedDetector == NewDetector(Vec(0, 1))

\* an update that takes the rotation of the pose and leaves its translation out
JawsUpdateBeamRotatingOnly(j, s) ==
    [j EXCEPT !.beam_direction = Rotate(ChainPose(s, j.positioner), j.initial_direction),
              !.beam_source = Rotate(ChainPose(s, j.positioner), j.initial_source)]

\* Jaws.updateBeam(), the positioners as they are in s
JawsUpdateBeam(j, s) ==
    [j EXCEPT !.beam_direction = Rotate(ChainPose(s, j.positioner), j.initial_direction),
              !.beam_source = VecAdd(Rotate(ChainPose(s, j.positioner), j.initial_source),
                                     Translation(ChainPose(s, j.positioner)))]

\* Detector.updateBeam()
DetectorUpdateBeam(d, s) ==
    [d EXCEPT !.diffracted_beam = Rotate(ChainPose(s, d.positioner), d.initial_beam)]

\* jaws, detector and the wrappers they have put around fkine functions
Beams(j, d, w) == [jaws |-> j, detector |-> d, wrapped |-> w]

\* Jaws.positioner = positioners[c]: the fkine of c is wrapped and the beam
\* updated
JawsSetPositioner(b, c, s) ==
    Beams(JawsUpdateBeam([b.jaws EXCEPT !.positioner = c], s), b.detector,
          [b.wrapped EXCEPT ![c] = @ \cup {"jaws"}])

\* Detector.positioner = positioners[c]
DetectorSetPositioner(b, c, s) ==
    Beams(b.jaws, DetectorUpdateBeam([b.detector EXCEPT !.positioner = c], s),
          [b.wrapped EXCEPT ![c] = @ \cup {"detector"}])

\* a wrapper that returns the result and updates nothing
WrapperNotUpdating(c, b, s) == b

\* __wrapper of Jaws and of Detector: func, the fkine of positioner c, has
\* returned and left the positioners as they are in s; whoever wrapped it
\* updates its beam
Wrapper(c, b, s) ==
    Beams(IF "jaws" \in b.wrapped[c] THEN JawsUpdateBeam(b.jaws, s) ELSE b.jaws,
          IF "detector" \in b.wrapped[c] THEN DetectorUpdateBeam(b.detector, s)
          ELSE b.detector,
          b.wrapped)

RECURSIVE WrappedRun(_, _, _, _, _, _)
\* the wrappers run by PositioningStack.fkine up to its n-th auxiliary, each
\* right after the fkine of its positioner
WrappedRun(b, s, q, ignore_locks, setpoint, n) ==
    IF n = 0
    THEN Wrapper(s.fixed, b, FkineRun(s, q, ignore_locks, setpoint, 0).state)
    ELSE Wrapper(s.auxiliary[n],
                 WrappedRun(b, s, q, ignore_locks, setpoint, n - 1),
                 FkineRun(s, q, ignore_locks, setpoint, n).state)

\* QUndoStack(): no command, index and clean index 0
EmptyUndoStack == [commands |-> << >>, index |-> 0, clean_index |-> 0]

\* no Script was built
NoScript == [template |-> << >>, built |-> FALSE]

\* the instrument as read from its description, with jaws and detector that
\* have no positioner, an empty undo stack and no script
AsDescribed ==
    /\ name = FirstKey
    /\ jaws = DescribedJaws
    /\ detector = DescribedDetector
    /\ wrapped = [c \in Chains |-> {}]
    /\ undo_stack = EmptyUndoStack
    /\ script = NoScript

\* a main window with no project open: MainWindowModel() before any project
\* data exists, an empty undo stack and no recent project
NoProject ==
    /\ alignment = FALSE
    /\ measurement_points = 0
    /\ simulation = None
    /\ detached = 0
    /\ recent_projects = << >>
    /\ clean = TRUE
    /\ save_path = ""
    /\ returned = None
    /\ AsDescribed

Init ==
    /\ \E f \in Chains :
        LET s == StackInit(Fresh, f)
        IN  /\ base = s.base
            /\ offset = s.offset
            /\ set_point = s.set_point
            /\ locked = s.locked
            /\ ignore_limits = s.ignore_limits
            /\ fixed = s.fixed
            /\ auxiliary = s.auxiliary
            /\ link_matrix = s.link_matrix
            /\ tool_link = s.tool_link
            /\ call = Called("init", f, Identity, << >>, << >>, FALSE, FALSE,
                            Fresh.set_point[f])
    /\ ret = Identity
    /\ delegated = << >>
    /\ twin = Identity
    /\ ops = 0
    /\ NoProject

\* joint vectors of length n with entries in Vals
JointVectors(n) == [1..n -> Vals]

\* a new stack is built on chain f (loadPositioningStack, first key)
Construct(f) ==
    /\ ops < MaxOps
    /\ \E s \in {Cur} : \E r \in {StackInit(s, f)} : Install(r)
    /\ call' = Called("init", f, Identity, << >>, << >>, FALSE, FALSE, set_point[f])
    /\ ret' = Identity
    /\ delegated' = << >>
    /\ twin' = Identity
    /\ ops' = ops + 1
    /\ UNCHANGED appVars

\* stack.addPositioner(c), c a positioner that is not yet part of the stack
Add(c) ==
    /\ ops < MaxOps
    /\ ~InStack(Cur, c)
    /\ \E s \in {Cur} : \E r \in {AddPositioner(s, c)} : Install(r)
    /\ call' = Called("addPositioner", c, Identity, << >>, << >>, FALSE, FALSE,
                    set_point[c])
    /\ ret' = Identity
    /\ delegated' = << >>
    /\ twin' = Identity
    /\ ops' = ops + 1
    /\ UNCHANGED appVars

\* stack.changeBaseMatrix(c, m) for an auxiliary c (ChangePositionerBase)
ChangeBase(c, m) ==
    /\ ops < MaxOps
    /\ \E k \in 1..Len(auxiliary) : auxiliary[k] = c
    /\ \E s \in {Cur} : \E r \in {ChangeBaseMatrix(s, c, m)} : Install(r)
    /\ call' = Called("changeBaseMatrix", c, m, << >>, << >>, FALSE, FALSE,
                    set_point[c])
    /\ ret' = Identity
    /\ delegated' = << >>
    /\ twin' = Identity
    /\ ops' = ops + 1
    /\ UNCHANGED appVars

\* joint vectors that agree with q wherever lock_state is false
LockedVariants(lock_state, q) ==
    { q2 \in JointVectors(Len(q)) :
        \A k \in 1..Len(q) : q2[k] # q[k] => lock_state[k] }

\* stack.fkine(q, ignore_locks, setpoint); q2 is the joint vector of the
\* twin call made from the same state
Fkine(q, q2, ignore_locks, setpoint) ==
    /\ ops < MaxOps
    /\ \E s \in {Cur} :
        \E r \in {StackFkine(s, q, ignore_locks, setpoint)} :
            /\ Install(r.state)
            /\ ret' = r.T
            /\ delegated' = r.calls
            /\ twin' = IF q2 = q THEN r.T
                       ELSE StackFkine(s, q2, ignore_locks, setpoint).T
    /\ call' = Called("fkine", "-", Identity, q, q2, ignore_locks, setpoint, << >>)
    /\ ops' = ops + 1
    /\ UNCHANGED appVars

\* LockJoint(positioner, index, value) pushed on the undo stack, which runs
\* redo() and is not clean any more
LockJoint(index, value) ==
    /\ ops < MaxOps
    /\ \E old_lock_state \in {LockState(Cur)} :
        /\ old_lock_state[index] # value
        /\ \E r \in {ChangeLockState(Cur, [old_lock_state EXCEPT ![index] = value])} :
              Install(r)
    /\ call' = Called("lockJoint", "-", Identity, << >>, << >>, FALSE, FALSE, << >>)
    /\ ret' = Identity
    /\ delegated' = << >>
    /\ twin' = Identity
    /\ ops' = ops + 1
    /\ clean' = FALSE
    /\ UNCHANGED << alignment, measurement_points, simulation, detached,
                    recent_projects, save_path, returned >>
    /\ UNCHANGED restVars

\* IgnoreJointLimits(positioner, index, value) pushed on the undo stack, which
\* runs redo() and is not clean any more
IgnoreJointLimits(index, value) ==
    /\ ops < MaxOps
    /\ \E old_ignore_state \in {IgnoreState(Cur)} :
        /\ old_ignore_state[index] # value
        /\ \E r \in {ChangeIgnoreLimitState(Cur,
                        [old_ignore_state EXCEPT ![index] = value])} :
              Install(r)
    /\ call' = Called("ignoreJointLimits", "-", Identity, << >>, << >>, FALSE, FALSE,
                    << >>)
    /\ ret' = Identity
    /\ delegated' = << >>
    /\ twin' = Identity
    /\ ops' = ops + 1
    /\ clean' = FALSE
    /\ UNCHANGED << alignment, measurement_points, simulation, detached,
                    recent_projects, save_path, returned >>
    /\ UNCHANGED restVars

\* stack.set_points = q, q with one entry per link of the stack or one less
AssignSetPoints(q) ==
    /\ ops < MaxOps
    /\ \E s \in {Cur} : \E r \in {SetPoints(s, q)} : Install(r)
    /\ call' = Called("set_points", "-", Identity, q, << >>, FALSE, FALSE,
                    StackSetPoints(Cur))
    /\ ret' = Identity
    /\ delegated' = << >>
    /\ twin' = Identity
    /\ ops' = ops + 1
    /\ UNCHANGED appVars

Next ==
    \/ \E f \in Chains : Construct(f)
    \/ \E c \in Chains : Add(c)
    \/ \E c \in Chains, m \in Bases : ChangeBase(c, m)
    \/ \E lock_state \in {LockState(Cur)} :
          \E q \in JointVectors(Len(lock_state)), il \in BOOLEAN, sp \in BOOLEAN :
              \E q2 \in (IF il THEN {q} ELSE LockedVariants(lock_state, q)) :
                  Fkine(q, q2, il, sp)
    \/ \E k \in 1..NumberOfLinks(Cur), v \in BOOLEAN : LockJoint(k, v)
    \/ \E k \in 1..NumberOfLinks(Cur), v \in BOOLEAN : IgnoreJointLimits(k, v)
    \/ \E n \in {NumberOfLinks(Cur) - 1, NumberOfLinks(Cur)} :
          \E q \in JointVectors(n) : AssignSetPoints(q)

Spec == Init /\ [][Next]_vars

(* ------------------------------ simulation ---------------------------- *)
\* largest number of measurement points of a project
MaxPoints == 2

\* IKResult(q, status, pos_err, orient_err, pos_converged, orient_converged)
IKResult(q, status, position_error, orientation_error, position_converged, orientation_converged) ==
    [q |-> q, status |-> status, position_error |-> position_error,
     orientation_error |-> orientation_error,
     position_converged |-> position_converged,
     orientation_converged |-> orientation_converged]

\* the three results of testSimulationResult, numbers in tenths
converged ==
    IKResult(<< 900 >>, "Converged", << 0, 1, 0 >>, << 1, 0, 0 >>, TRUE, TRUE)
not_converged ==
    IKResult(<< 878 >>, "Converged", << 0, 0, 0 >>, << 10, 10, 0 >>, TRUE, FALSE)
non_fatal ==
    IKResult(<< 450 >>, "Failed", << -10, -10, -10 >>, << -10, -10, -10 >>,
             FALSE, FALSE)

\* what a solve may return
IKOutcomes == {converged, not_converged, non_fatal}

\* SimulationResult(result_id, ik, q_formatted, alignment, path_length,
\*                  collision_mask)
SimulationResult(label, ik_result, formatted_joint_report, alignment_index, path_length, collision_flags) ==
    [label |-> label, ik_result |-> ik_result,
     formatted_joint_report |-> formatted_joint_report,
     alignment_index |-> alignment_index, path_length |-> path_length,
     collision_flags |-> collision_flags]

\* the result of a target of which nothing is computed yet
Partial(label) == SimulationResult(label, None, None, 0, None, None)

\* model.createSimulation(compute_path_length, render_graphics, check_limits):
\* a simulation over the model's measurement points, not started; run names
\* it. Of the three options only compute_path_length changes what a run
\* publishes
CreateSimulation(run, compute_path_length, render_graphics, check_limits) ==
    [run |-> run, state |-> "Idle", count |-> measurement_points,
     aligned |-> alignment,
     compute_path_length |-> compute_path_length,
     abort |-> FALSE,       \* the abort flag
     target |-> 0,          \* targets accepted so far
     step |-> 0,            \* steps done for the target in flight, 0: none
     pending |-> None,      \* the result being built for the target in flight
     results |-> << >>]

\* simulation.start()
Start(e) == IF e.state = "Idle" THEN [e EXCEPT !.state = "Running"] ELSE e

\* an abort() that ends the run at once, whatever its state
AbortEndingRun(e) == [e EXCEPT !.abort = TRUE, !.state = "Aborted"]

\* simulation.abort(): raises the abort flag
Abort(e) == [e EXCEPT !.abort = TRUE]

\* simulation.isRunning()
IsRunning(e) == e.state = "Running"

Terminal(e) == e.state \in {"Completed", "Aborted", "Failed"}

\* step 1 of the next target: the run fails if nothing was processed yet and
\* its precondition does not hold; else the joint-limit state is validated
\* against the stack's configuration and the target is in flight
CheckLimits(e, s) ==
    IF e.target = 0 /\ ~(e.aligned /\ e.count > 0)
    THEN [e EXCEPT !.state = "Failed"]
    ELSE [e EXCEPT !.target = @ + 1, !.step = 1, !.pending = Partial(e.target + 1)]

\* a solve whose failure ends the run
SolveStoppingOnFailure(e, r) ==
    IF r.status = "Failed" THEN [e EXCEPT !.state = "Failed"]
    ELSE [e EXCEPT !.step = 2,
                   !.pending = [@ EXCEPT !.ik_result = r,
                                         !.formatted_joint_report =
                                             [names |-> << "X" >>, values |-> r.q]]]

\* step 2: the solver's result for the target in flight
Solve(e, r) ==
    [e EXCEPT !.step = 2,
              !.pending = [@ EXCEPT !.ik_result = r,
                                    !.formatted_joint_report =
                                        [names |-> << "X" >>, values |-> r.q]]]

\* step 3: the collision and path-length oracles, when enabled
Query(e) ==
    IF e.compute_path_length
    THEN [e EXCEPT !.step = 3,
                   !.pending = [@ EXCEPT !.path_length = [East |-> 120],
                                         !.collision_flags =
                                             [East |-> FALSE, West |-> TRUE]]]
    ELSE [e EXCEPT !.step = 3]

\* a publish that puts the new result first
PublishInFront(e) ==
    [e EXCEPT !.results = << e.pending >> \o @, !.pending = None, !.step = 0,
              !.state = IF e.target = e.count THEN "Completed" ELSE @]

\* step 4: the result is appended; after the last target the run is Completed
Publish(e) ==
    [e EXCEPT !.results = Append(@, e.pending), !.pending = None, !.step = 0,
              !.state = IF e.target = e.count THEN "Completed" ELSE @]

\* an engine that publishes whatever it has of the target in flight
ObserveAbortPublishingPartial(e) ==
    IF e.step >= 1
    THEN [e EXCEPT !.results = Append(@, e.pending), !.pending = None,
                   !.step = 0, !.state = "Aborted"]
    ELSE [e EXCEPT !.state = "Aborted"]

\* the abort flag seen between two steps: a result already computed for the
\* target in flight is finalized and published, one not yet computed is
\* discarded, and the run is Aborted
ObserveAbort(e) ==
    IF e.step >= 2
    THEN [Publish(IF e.step = 2 THEN Query(e) ELSE e) EXCEPT !.state = "Aborted"]
    ELSE [e EXCEPT !.pending = None, !.step = 0, !.state = "Aborted"]

\* presenter.runSimulation without the test for a running simulation
RunSimulationUnguarded(sim, run, compute_path_length, render_graphics, check_limits) ==
    IF ~alignment THEN sim
    ELSE IF measurement_points = 0 THEN sim
    ELSE Start(CreateSimulation(run, compute_path_length, render_graphics,
                                check_limits))

\* presenter.runSimulation(): the value of model.simulation on return
RunSimulationFrom(sim, run, compute_path_length, render_graphics, check_limits) ==
    IF ~alignment THEN sim
    ELSE IF measurement_points = 0 THEN sim
    ELSE IF sim # None /\ IsRunning(sim) THEN sim
    ELSE Start(CreateSimulation(run, compute_path_length, render_graphics,
                                check_limits))

\* presenter.stopSimulation(): the value of model.simulation on return
StopSimulationFrom(sim) == IF sim = None THEN sim ELSE Abort(sim)

\* the number of simulations that go on without the model referring to them
\* once presenter.resetSimulation() has returned: stopSimulation() has raised
\* the abort flag of a running simulation, which ends when its worker sees it
DetachedAfterReset(sim, others) ==
    IF sim # None /\ IsRunning(StopSimulationFrom(sim)) THEN others + 1 ELSE others

\* a reset that leaves the simulation where it is
ResetSimulationKeeping(sim, others) ==
    [simulation |-> StopSimulationFrom(sim),
     calls |-> IF sim # None THEN << "abort" >> ELSE << >>,
     detached |-> others]

\* presenter.resetSimulation(): stopSimulation(), then model.simulation is
\* None; calls: the calls made on the simulation there was
ResetSimulation(sim, others) ==
    [simulation |-> None,
     calls |-> IF sim # None /\ StopSimulationFrom(sim).abort
               THEN << "abort" >> ELSE << >>,
     detached |-> DetachedAfterReset(sim, others)]

\* the answers to the prompt of the simulation dialog
CloseReplies == {"Stop", "Cancel"}

\* a close that stops the simulation without heeding the answer
CloseEventWithoutAsking(sim, reply) ==
    IF sim # None /\ IsRunning(sim)
    THEN [simulation |-> Abort(sim), calls |-> << "abort" >>]
    ELSE [simulation |-> sim, calls |-> << >>]

\* SimulationDialog.close() as testSimulationResult observes it: reply is the
\* answer to the prompt shown while the simulation runs; calls: the calls
\* made on the simulation
CloseEvent(sim, reply) ==
    IF sim # None /\ IsRunning(sim)
    THEN IF reply = "Stop"
         THEN [simulation |-> Abort(sim), calls |-> << "abort" >>]
         ELSE [simulation |-> sim, calls |-> << >>]
    ELSE [simulation |-> sim, calls |-> << >>]

\* the largest number of entries of the recent project list
recent_list_size == 10

RECURSIVE Contains(_, _)
Contains(seq, x) ==
    IF seq = << >> THEN FALSE
    ELSE IF seq[1] = x THEN TRUE ELSE Contains(Tail(seq), x)

\* list(dict.fromkeys(projects)): the first occurrence of each entry, in order
RECURSIVE FromKeys(_, _)
FromKeys(projects, n) ==
    IF n = 0 THEN << >>
    ELSE LET head == FromKeys(projects, n - 1)
         IN  IF Contains(head, projects[n]) THEN head
             ELSE Append(head, projects[n])

\* an update that appends the filename
UpdateRecentProjectsAtEnd(projects, filename) ==
    LET unique == FromKeys(Append(projects, filename), Len(projects) + 1)
    IN  IF Len(unique) <= recent_list_size THEN unique
        ELSE SubSeq(unique, 1, recent_list_size)

\* presenter.updateRecentProjects(filename): the new view.recent_projects
UpdateRecentProjects(projects, filename) ==
    LET unique == FromKeys(<< filename >> \o projects, Len(projects) + 1)
    IN  IF Len(unique) <= recent_list_size THEN unique
        ELSE SubSeq(unique, 1, recent_list_size)

\* the stack, the history of fkine calls and the project files stay as they are
SimFrame ==
    /\ UNCHANGED stackVars
    /\ UNCHANGED << ret, delegated, twin >>
    /\ UNCHANGED restVars

\* what is remembered of a presenter call or of a step of a simulation
Did(op, what) == Called(op, what, Identity, << >>, << >>, FALSE, FALSE, << >>)

\* presenter.runSimulation(), the three view actions checked or not
RunSimulation(compute_path_length, render_graphics, check_limits) ==
    /\ ops < MaxOps
    /\ simulation' = RunSimulationFrom(simulation, ops + 1, compute_path_length,
                                       render_graphics, check_limits)
    /\ call' = Did("runSimulation", "-")
    /\ ops' = ops + 1
    /\ SimFrame
    /\ UNCHANGED << alignment, measurement_points, detached, recent_projects,
                    clean, save_path, returned >>

\* presenter.stopSimulation()
StopSimulation ==
    /\ ops < MaxOps
    /\ simulation' = StopSimulationFrom(simulation)
    /\ call' = Did("stopSimulation", "-")
    /\ ops' = ops + 1
    /\ SimFrame
    /\ UNCHANGED << alignment, measurement_points, detached, recent_projects,
                    clean, save_path, returned >>

\* presenter.openProject(filename); loaded: the project data could be read,
\* and then the project has the given alignment and measurement points
OpenProject(filename, loaded, aligned, points) ==
    /\ ops < MaxOps
    /\ detached' = DetachedAfterReset(simulation, detached)
    /\ simulation' = None
    /\ IF loaded
       THEN /\ alignment' = aligned
            /\ measurement_points' = points
            /\ recent_projects' = UpdateRecentProjects(recent_projects, filename)
            /\ save_path' = filename
            /\ clean' = TRUE
       ELSE UNCHANGED << alignment, measurement_points, recent_projects,
                         save_path, clean >>
    /\ call' = Did("openProject", IF loaded THEN "loaded" ELSE "error")
    /\ ops' = ops + 1
    /\ SimFrame
    /\ UNCHANGED returned

\* the instrument of a project that was just created or whose instrument was
\* changed: new positioners, the first stack loaded
InstallInstrument ==
    /\ \E r \in {LoadPositioningStack(Fresh, FirstKey, FirstKey)} :
          /\ Install(r.state)
          /\ name' = r.name
    /\ UNCHANGED << ret, delegated, twin, jaws, detector, wrapped, script >>

\* what is remembered of a presenter call that made calls on the simulation
DidCalling(op, what, calls) ==
    Called(op, what, Identity, calls, << >>, FALSE, FALSE, << >>)

\* presenter.createProject(name, instrument); created: createProjectData
\* does not raise
CreateProject(created) ==
    /\ ops < MaxOps
    /\ \E r \in {ResetSimulation(simulation, detached)} :
          /\ simulation' = r.simulation
          /\ detached' = r.detached
          /\ call' = DidCalling("createProject",
                                IF created THEN "created" ELSE "error", r.calls)
    /\ IF created
       THEN /\ alignment' = FALSE
            /\ measurement_points' = 0
            /\ save_path' = ""
            /\ undo_stack' = EmptyUndoStack
            /\ clean' = TRUE
            /\ InstallInstrument
       ELSE /\ UNCHANGED << alignment, measurement_points, save_path,
                            undo_stack, clean >>
            /\ SimFrame
    /\ ops' = ops + 1
    /\ UNCHANGED << recent_projects, returned >>

\* presenter._changeInstrumentHelper(instrument); changed: changeInstrument
\* does not raise
ChangeInstrument(changed) ==
    /\ ops < MaxOps
    /\ \E r \in {ResetSimulation(simulation, detached)} :
          /\ simulation' = r.simulation
          /\ detached' = r.detached
          /\ call' = DidCalling("changeInstrument",
                                IF changed THEN "changed" ELSE "error", r.calls)
    /\ IF changed
       THEN /\ save_path' = ""
            /\ undo_stack' = [EmptyUndoStack EXCEPT !.clean_index = 0 - 1]
            /\ clean' = FALSE
            /\ InstallInstrument
       ELSE /\ UNCHANGED << save_path, undo_stack, clean >>
            /\ SimFrame
    /\ ops' = ops + 1
    /\ UNCHANGED << alignment, measurement_points, recent_projects, returned >>

\* the simulation dialog is closed; the prompt is shown while the simulation
\* runs, and then reply is its answer
CloseDialog(reply) ==
    /\ ops < MaxOps
    /\ reply = "-" <=> ~(simulation # None /\ IsRunning(simulation))
    /\ \E r \in {CloseEvent(simulation, reply)} :
          /\ simulation' = r.simulation
          /\ call' = DidCalling("close", reply, r.calls)
    /\ ops' = ops + 1
    /\ SimFrame
    /\ UNCHANGED << alignment, measurement_points, detached, recent_projects,
                    clean, save_path, returned >>

\* a step of the worker of model.simulation, after which it is e
PutEngine(e, what) ==
    /\ simulation' = e
    /\ call' = Did("engine", what)
    /\ SimFrame
    /\ UNCHANGED << ops, alignment, measurement_points, detached,
                    recent_projects, clean, save_path, returned >>

\* the worker accepts its next target (step 1)
EngineCheckLimits ==
    /\ simulation # None
    /\ IsRunning(simulation)
    /\ ~simulation.abort
    /\ simulation.step = 0
    /\ PutEngine(CheckLimits(simulation, Cur), "limits")

\* the worker solves the target in flight (step 2)
EngineSolve(r) ==
    /\ simulation # None
    /\ IsRunning(simulation)
    /\ ~simulation.abort
    /\ simulation.step = 1
    /\ PutEngine(Solve(simulation, r), "solve")

\* the worker queries the oracles (step 3)
EngineQuery ==
    /\ simulation # None
    /\ IsRunning(simulation)
    /\ ~simulation.abort
    /\ simulation.step = 2
    /\ PutEngine(Query(simulation), "query")

\* the worker publishes the result (step 4)
EnginePublish ==
    /\ simulation # None
    /\ IsRunning(simulation)
    /\ ~simulation.abort
    /\ simulation.step = 3
    /\ PutEngine(Publish(simulation), "publish")

\* the worker sees the abort flag between two steps
EngineObserveAbort ==
    /\ simulation # None
    /\ IsRunning(simulation)
    /\ simulation.abort
    /\ PutEngine(ObserveAbort(simulation), "abort")

\* the worker of a detached simulation sees the abort flag and ends
DetachedObserveAbort ==
    /\ detached > 0
    /\ detached' = detached - 1
    /\ call' = Did("engine", "detached")
    /\ SimFrame
    /\ UNCHANGED << ops, alignment, measurement_points, simulation,
                    recent_projects, clean, save_path, returned >>

\* an open project with its stack built on the first chain, and no simulation
SimInit ==
    /\ \E f \in {"F"} :
        LET s == StackInit(Fresh, f)
        IN  /\ base = s.base
            /\ offset = s.offset
            /\ set_point = s.set_point
            /\ locked = s.locked
            /\ ignore_limits = s.ignore_limits
            /\ fixed = s.fixed
            /\ auxiliary = s.auxiliary
            /\ link_matrix = s.link_matrix
            /\ tool_link = s.tool_link
            /\ call = Called("init", f, Identity, << >>, << >>, FALSE, FALSE,
                            Fresh.set_point[f])
    /\ ret = Identity
    /\ delegated = << >>
    /\ twin = Identity
    /\ ops = 0
    /\ alignment \in BOOLEAN
    /\ measurement_points \in 0..MaxPoints
    /\ simulation = None
    /\ detached = 0
    /\ recent_projects = << >>
    /\ clean = TRUE
    /\ save_path = ""
    /\ returned = None
    /\ AsDescribed

SimNext ==
    \/ \E cpl \in BOOLEAN, rg \in BOOLEAN, cl \in BOOLEAN : RunSimulation(cpl, rg, cl)
    \/ StopSimulation
    \/ \E loaded \in BOOLEAN, a \in BOOLEAN, n \in 0..MaxPoints :
          OpenProject("a.h5", loaded, a, n)
    \/ \E created \in BOOLEAN : CreateProject(created)
    \/ \E changed \in BOOLEAN : ChangeInstrument(changed)
    \/ \E reply \in CloseReplies \cup {"-"} : CloseDialog(reply)
    \/ \E k \in 1..NumberOfLinks(Cur), v \in BOOLEAN : LockJoint(k, v)
    \/ \E k \in 1..NumberOfLinks(Cur), v \in BOOLEAN : IgnoreJointLimits(k, v)
    \/ EngineCheckLimits
    \/ \E r \in IKOutcomes : EngineSolve(r)
    \/ EngineQuery
    \/ EnginePublish
    \/ EngineObserveAbort
    \/ DetachedObserveAbort

SpecSim == SimInit /\ [][SimNext]_vars

(* ------------------------------- project ------------------------------ *)
\* the stack of the instrument, built on the first chain and left alone
IdleStack ==
    /\ \E f \in {"F"} :
        LET s == StackInit(Fresh, f)
        IN  /\ base = s.base
            /\ offset = s.offset
            /\ set_point = s.set_point
            /\ locked = s.locked
            /\ ignore_limits = s.ignore_limits
            /\ fixed = s.fixed
            /\ auxiliary = s.auxiliary
            /\ link_matrix = s.link_matrix
            /\ tool_link = s.tool_link
            /\ call = Called("init", f, Identity, << >>, << >>, FALSE, FALSE,
                            Fresh.set_point[f])
    /\ ret = Identity
    /\ delegated = << >>
    /\ twin = Identity
    /\ ops = 0

\* project files in the order of their names, one more than the recent
\* project list can hold
FilesInOrder ==
    << "a.h5", "b.h5", "c.h5", "d.h5", "e.h5", "f.h5", "g.h5", "h.h5", "i.h5",
       "j.h5", "k.h5" >>

Files == {FilesInOrder[k] : k \in 1..(recent_list_size + 1)}

\* presenter.updateRecentProjects(filename)
UpdateRecent(filename) ==
    /\ ops < MaxOps
    /\ recent_projects' = UpdateRecentProjects(recent_projects, filename)
    /\ call' = Called("updateRecentProjects", "-", Identity, << filename >>, << >>,
                    FALSE, FALSE, recent_projects)
    /\ ops' = ops + 1
    /\ SimFrame
    /\ UNCHANGED << alignment, measurement_points, simulation, detached, clean,
                    save_path, returned >>

\* a main window whose recent project list holds the first files, or the
\* files from the second one on
RecentInit ==
    /\ IdleStack
    /\ \E n \in 0..recent_list_size, first \in 1..2 :
          recent_projects = SubSeq(FilesInOrder, first, first + n - 1)
    /\ alignment = FALSE
    /\ measurement_points = 0
    /\ simulation = None
    /\ detached = 0
    /\ clean = TRUE
    /\ save_path = ""
    /\ returned = None
    /\ AsDescribed

RecentNext == \E filename \in Files : UpdateRecent(filename)

SpecRecent == RecentInit /\ [][RecentNext]_vars

\* what the save functions read and write: the undo stack's clean flag, the
\* save path and the recent project list
Project ==
    [clean |-> clean, save_path |-> save_path, recent_projects |-> recent_projects]

\* presenter.saveProject(save_as); filename: what the save dialog returns when
\* it is shown ("" when it is cancelled), written: saveProjectData does not
\* raise OSError
SaveProject(p, save_as, filename, written) ==
    IF p.clean /\ p.save_path # "" /\ ~save_as THEN p
    ELSE LET target == IF save_as \/ p.save_path = "" THEN filename
                       ELSE p.save_path
         IN  IF target = "" THEN p
             ELSE IF written
             THEN [clean |-> TRUE, save_path |-> target,
                   recent_projects |-> UpdateRecentProjects(p.recent_projects, target)]
             ELSE p

MessageReplyType == {"Save", "Discard", "Cancel"}

\* presenter.confirmSave(); reply: the answer to the save/discard message
ConfirmSave(p, reply, filename, written) ==
    IF p.clean THEN [project |-> p, result |-> TRUE]
    ELSE IF reply = "Save"
         THEN IF p.save_path # ""
              THEN [project |-> SaveProject(p, FALSE, filename, written),
                    result |-> TRUE]
              ELSE [project |-> SaveProject(p, TRUE, filename, written),
                    result |-> SaveProject(p, TRUE, filename, written).clean]
         ELSE IF reply = "Discard" THEN [project |-> p, result |-> TRUE]
         ELSE [project |-> p, result |-> FALSE]

\* the files a save dialog returns, "" when it is cancelled
DialogFiles == {"", "a.h5", "b.h5"}

InstallProject(p) ==
    /\ clean' = p.clean
    /\ save_path' = p.save_path
    /\ recent_projects' = p.recent_projects

\* the user saves the project (save_as: with "Save As")
Save(save_as, filename, written) ==
    /\ ops < MaxOps
    /\ InstallProject(SaveProject(Project, save_as, filename, written))
    /\ returned' = None
    /\ call' = Did("saveProject", "-")
    /\ ops' = ops + 1
    /\ SimFrame
    /\ UNCHANGED << alignment, measurement_points, simulation, detached >>

\* the main window asks whether it may let go of the project
Confirm(reply, filename, written) ==
    /\ ops < MaxOps
    /\ \E r \in {ConfirmSave(Project, reply, filename, written)} :
        /\ InstallProject(r.project)
        /\ returned' = r.result
    /\ call' = Did("confirmSave", reply)
    /\ ops' = ops + 1
    /\ SimFrame
    /\ UNCHANGED << alignment, measurement_points, simulation, detached >>

\* a main window with a project that was never saved or is saved in a.h5
SaveInit ==
    /\ IdleStack
    /\ save_path \in {"", "a.h5"}
    /\ recent_projects = IF save_path = "" THEN << >> ELSE << save_path >>
    /\ clean = TRUE
    /\ alignment = FALSE
    /\ measurement_points = 0
    /\ simulation = None
    /\ detached = 0
    /\ returned = None
    /\ AsDescribed

SaveNext ==
    \/ \E save_as \in BOOLEAN, filename \in DialogFiles, written \in BOOLEAN :
          Save(save_as, filename, written)
    \/ \E reply \in MessageReplyType, filename \in DialogFiles, written \in BOOLEAN :
          Confirm(reply, filename, written)
    \/ \E k \in 1..NumberOfLinks(Cur), v \in BOOLEAN : LockJoint(k, v)
    \/ \E k \in 1..NumberOfLinks(Cur), v \in BOOLEAN : IgnoreJointLimits(k, v)

SpecSave == SaveInit /\ [][SaveNext]_vars

(* ----------------------- jaws and detector beams ---------------------- *)
InstallBeams(b) ==
    /\ jaws' = b.jaws
    /\ detector' = b.detector
    /\ wrapped' = b.wrapped

\* what the specification of the beams leaves alone
BeamFrame ==
    /\ UNCHANGED << alignment, measurement_points, simulation, detached,
                    recent_projects, clean, save_path, returned >>
    /\ UNCHANGED << name, undo_stack, script, twin >>

\* jaws.positioner = positioners[c]
AssignJawsPositioner(c) ==
    /\ ops < MaxOps
    /\ InstallBeams(JawsSetPositioner(Beams(jaws, detector, wrapped), c, Cur))
    /\ call' = Did("jaws.positioner", c)
    /\ ops' = ops + 1
    /\ UNCHANGED << stackVars, ret, delegated >>
    /\ BeamFrame

\* detector.positioner = positioners[c]
AssignDetectorPositioner(c) ==
    /\ ops < MaxOps
    /\ InstallBeams(DetectorSetPositioner(Beams(jaws, detector, wrapped), c, Cur))
    /\ call' = Did("detector.positioner", c)
    /\ ops' = ops + 1
    /\ UNCHANGED << stackVars, ret, delegated >>
    /\ BeamFrame

\* positioners[c].fkine(q), through the wrappers put around it
PositionerFkine(c, q) ==
    /\ ops < MaxOps
    /\ \E r \in {ChainFkine(Cur, c, q, FALSE, TRUE)} :
          /\ Install(r)
          /\ ret' = ChainPose(r, c)
          /\ InstallBeams(Wrapper(c, Beams(jaws, detector, wrapped), r))
    /\ delegated' = << >>
    /\ call' = Called("positioner.fkine", c, Identity, q, << >>, FALSE, TRUE, << >>)
    /\ ops' = ops + 1
    /\ BeamFrame

\* positioning_stack.fkine(q), which calls the fkine of each of its chains
WrappedStackFkine(q) ==
    /\ ops < MaxOps
    /\ \E s \in {Cur} : \E r \in {StackFkine(s, q, FALSE, TRUE)} :
          /\ Install(r.state)
          /\ ret' = r.T
          /\ delegated' = r.calls
          /\ InstallBeams(WrappedRun(Beams(jaws, detector, wrapped), s, q, FALSE,
                                     TRUE, Len(s.auxiliary)))
    /\ call' = Called("fkine", "-", Identity, q, q, FALSE, TRUE, << >>)
    /\ ops' = ops + 1
    /\ BeamFrame

\* positioning_stack.changeBaseMatrix(c, m) for an auxiliary c: the fkine of
\* c is called once the base is changed, to move c back to its set-points
WrappedChangeBase(c, m) ==
    /\ ops < MaxOps
    /\ \E k \in 1..Len(auxiliary) : auxiliary[k] = c
    /\ \E r \in {ChangeBaseMatrix(Cur, c, m)} :
          /\ Install(r)
          /\ InstallBeams(Wrapper(c, Beams(jaws, detector, wrapped), r))
    /\ call' = Called("changeBaseMatrix", c, m, << >>, << >>, FALSE, FALSE,
                    set_point[c])
    /\ ret' = Identity
    /\ delegated' = << >>
    /\ ops' = ops + 1
    /\ BeamFrame

\* an instrument whose stack is one of the two-chain stacks, with jaws and a
\* detector that have no positioner yet
BeamInit ==
    /\ \E k \in {"Pair", "Swapped"} :
        LET r == LoadPositioningStack(Fresh, FirstKey, k)
        IN  /\ base = r.state.base
            /\ offset = r.state.offset
            /\ set_point = r.state.set_point
            /\ locked = r.state.locked
            /\ ignore_limits = r.state.ignore_limits
            /\ fixed = r.state.fixed
            /\ auxiliary = r.state.auxiliary
            /\ link_matrix = r.state.link_matrix
            /\ tool_link = r.state.tool_link
            /\ name = r.name
            /\ call = Did("loadPositioningStack", k)
    /\ ret = Identity
    /\ delegated = << >>
    /\ twin = Identity
    /\ ops = 0
    /\ alignment = FALSE
    /\ measurement_points = 0
    /\ simulation = None
    /\ detached = 0
    /\ recent_projects = << >>
    /\ clean = TRUE
    /\ save_path = ""
    /\ returned = None
    /\ jaws = DescribedJaws
    /\ detector = DescribedDetector
    /\ wrapped = [c \in Chains |-> {}]
    /\ undo_stack = EmptyUndoStack
    /\ script = NoScript

BeamNext ==
    \/ \E c \in Chains : AssignJawsPositioner(c)
    \/ \E c \in Chains : AssignDetectorPositioner(c)
    \/ \E c \in Chains : \E q \in JointVectors(ChainNumberOfLinks(c)) :
          PositionerFkine(c, q)
    \/ \E q \in JointVectors(NumberOfLinks(Cur)) : WrappedStackFkine(q)
    \/ \E c \in Chains, m \in Bases : WrappedChangeBase(c, m)

SpecBeam == BeamInit /\ [][BeamNext]_vars

(* --------------------------- undo commands ---------------------------- *)
\* (l.locked, l.ignore_limits) for l in stack.links
LinkState(s) ==
    [k \in 1..NumberOfLinks(s) |-> << LockState(s)[k], IgnoreState(s)[k] >>]

\* aux.base for aux in stack.auxiliary
AuxBases(s) == [k \in 1..Len(s.auxiliary) |-> s.base[s.auxiliary[k]]]

\* LockJoint.__init__(positioner_name, index, value, presenter); index counts
\* from 1 here. index and value are kept to tell what the command was built for
NewLockJoint(s, positioner_name, index, value) ==
    [id |-> "LockJoint", positioner_name |-> positioner_name,
     old_state |-> LockState(s),
     new_state |-> [LockState(s) EXCEPT ![index] = value],
     index |-> index, value |-> value]

\* IgnoreJointLimits.__init__(positioner_name, index, value, presenter)
NewIgnoreJointLimits(s, positioner_name, index, value) ==
    [id |-> "IgnoreJointLimits", positioner_name |-> positioner_name,
     old_state |-> IgnoreState(s),
     new_state |-> [IgnoreState(s) EXCEPT ![index] = value],
     index |-> index, value |-> value]

\* MovePositioner.__init__(positioner_name, q, ignore_locks, presenter)
NewMovePositioner(s, positioner_name, q, ignore_locks) ==
    [id |-> "MovePositioner", positioner_name |-> positioner_name,
     move_from |-> StackSetPoints(s), move_to |-> q, animate |-> TRUE,
     ignore_locks |-> ignore_locks]

\* ChangePositioningStack.__init__(stack_name, presenter), the current stack
\* being s with name nm. stack_then is no field of the command: it keeps the
\* chains and calibration transforms the stack had, to compare with later
NewChangePositioningStack(s, nm, stack_name) ==
    [id |-> "ChangePositioningStack", old_q |-> StackSetPoints(s),
     link_state |-> LinkState(s), bases |-> AuxBases(s),
     old_stack |-> nm, new_stack |-> stack_name,
     stack_then |-> [fixed |-> s.fixed, auxiliary |-> s.auxiliary,
                     link_matrix |-> s.link_matrix, tool_link |-> s.tool_link]]

\* the stack, its name and the command after a redo or an undo
Done(s, nm, cmd) == [state |-> s, name |-> nm, command |-> cmd]

\* MovePositioner.redo(): the first time the set-points are written and the
\* move is animated, the last frame being fkine(move_to, setpoint=False);
\* later the stack is moved at once
RedoMovePositioner(cmd, s) ==
    IF cmd.animate
    THEN StackFkine(SetPoints(s, cmd.move_to), cmd.move_to, cmd.ignore_locks,
                    FALSE).state
    ELSE StackFkine(s, cmd.move_to, cmd.ignore_locks, TRUE).state

\* MovePositioner.undo(): stack.set_point = move_from writes an attribute of
\* the stack that nothing reads; fkine(move_from) moves the stack back
UndoMovePositioner(cmd, s) ==
    StackFkine(s, cmd.move_from, cmd.ignore_locks, TRUE).state

RECURSIVE AssignBases(_, _, _)
\* for base, aux in zip(bases, stack.auxiliary): aux.base = base
AssignBases(s, bases, n) ==
    IF n = 0 THEN s
    ELSE [AssignBases(s, bases, n - 1) EXCEPT !.base[s.auxiliary[n]] = bases[n]]

\* an undo that loads the old stack and restores nothing
UndoChangePositioningStackLoadOnly(cmd, s, nm) ==
    LoadPositioningStack(s, nm, cmd.old_stack)

\* ChangePositioningStack.undo()
UndoChangePositioningStack(cmd, s, nm) ==
    LET l  == LoadPositioningStack(s, nm, cmd.old_stack)
        s1 == AssignBases(l.state, cmd.bases,
                          Min(Len(cmd.bases), Len(l.state.auxiliary)))
        s2 == [s1 EXCEPT
                 !.locked = ZipLinks(s1, s1.locked,
                               [k \in 1..Len(cmd.link_state) |-> cmd.link_state[k][1]]),
                 !.ignore_limits = ZipLinks(s1, s1.ignore_limits,
                               [k \in 1..Len(cmd.link_state) |-> cmd.link_state[k][2]])]
    IN  [l EXCEPT !.state = StackFkine(s2, cmd.old_q, TRUE, TRUE).state]

\* command.redo()
RedoCommand(cmd, s, nm) ==
    CASE cmd.id = "LockJoint" -> Done(ChangeLockState(s, cmd.new_state), nm, cmd)
      [] cmd.id = "IgnoreJointLimits" ->
            Done(ChangeIgnoreLimitState(s, cmd.new_state), nm, cmd)
      [] cmd.id = "MovePositioner" ->
            Done(RedoMovePositioner(cmd, s), nm, [cmd EXCEPT !.animate = FALSE])
      [] OTHER ->
            Done(LoadPositioningStack(s, nm, cmd.new_stack).state,
                 LoadPositioningStack(s, nm, cmd.new_stack).name, cmd)

\* command.undo()
UndoCommand(cmd, s, nm) ==
    CASE cmd.id = "LockJoint" -> Done(ChangeLockState(s, cmd.old_state), nm, cmd)
      [] cmd.id = "IgnoreJointLimits" ->
            Done(ChangeIgnoreLimitState(s, cmd.old_state), nm, cmd)
      [] cmd.id = "MovePositioner" -> Done(UndoMovePositioner(cmd, s), nm, cmd)
      [] OTHER ->
            Done(UndoChangePositioningStack(cmd, s, nm).state,
                 UndoChangePositioningStack(cmd, s, nm).name, cmd)

\* a merge that keeps the new state of the command on the stack
MergeWithKeepingNew(cur, cmd) ==
    IF cur.id # cmd.id \/ cmd.id = "ChangePositioningStack"
    THEN [merged |-> FALSE, command |-> cur, obsolete |-> FALSE]
    ELSE [merged |-> TRUE, command |-> cur, obsolete |-> FALSE]

\* cur.mergeWith(cmd) for two commands of the same id: whether cmd was taken
\* in, cur afterwards, and whether cur has declared itself obsolete
MergeWith(cur, cmd) ==
    IF cur.id # cmd.id \/ cmd.id = "ChangePositioningStack"
    THEN [merged |-> FALSE, command |-> cur, obsolete |-> FALSE]
    ELSE IF cur.positioner_name # cmd.positioner_name
    THEN [merged |-> FALSE, command |-> cur, obsolete |-> FALSE]
    ELSE IF cmd.id = "MovePositioner"
    THEN IF cur.ignore_locks # cmd.ignore_locks
         THEN [merged |-> FALSE, command |-> cur, obsolete |-> FALSE]
         ELSE [merged |-> TRUE, command |-> [cur EXCEPT !.move_to = cmd.move_to],
               obsolete |-> (cur.move_from = cmd.move_to)]
    ELSE [merged |-> TRUE, command |-> [cur EXCEPT !.new_state = cmd.new_state],
          obsolete |-> (cur.old_state = cmd.new_state)]

\* QUndoStack.push(cmd) once cmd.redo() has run: the commands that were
\* undone are dropped; cmd is merged into the command below it when both
\* have the same id and the stack is not clean there, and a command that
\* became obsolete by the merge is removed; else cmd is put on the stack
PushOn(u, cmd) ==
    LET kept == SubSeq(u.commands, 1, u.index)
        ci   == IF u.clean_index > u.index THEN 0 - 1 ELSE u.clean_index
        m    == MergeWith(kept[u.index], cmd)
    IN  IF u.index > 0 /\ kept[u.index].id = cmd.id /\ u.index # ci /\ m.merged
        THEN IF m.obsolete
             THEN [commands |-> SubSeq(kept, 1, u.index - 1), index |-> u.index - 1,
                   clean_index |-> ci]
             ELSE [commands |-> [kept EXCEPT ![u.index] = m.command],
                   index |-> u.index, clean_index |-> ci]
        ELSE [commands |-> Append(kept, cmd), index |-> u.index + 1,
              clean_index |-> ci]

\* what the specification of the undo stack leaves alone
UndoFrame ==
    /\ UNCHANGED << alignment, measurement_points, simulation, detached,
                    recent_projects, save_path, returned >>
    /\ UNCHANGED << jaws, detector, wrapped, script, ret, delegated, twin >>

\* view.undo_stack.push(cmd): cmd.redo() runs and cmd is put on the stack
Push(cmd) ==
    /\ ops < MaxOps
    /\ \E r \in {RedoCommand(cmd, Cur, name)} :
          /\ Install(r.state)
          /\ name' = r.name
          /\ undo_stack' = PushOn(undo_stack, r.command)
          /\ call' = Called("push", cmd.id, Identity, << >>, << >>, FALSE, FALSE,
                            r.command)
    /\ clean' = (undo_stack'.index = undo_stack'.clean_index)
    /\ ops' = ops + 1
    /\ UndoFrame

\* view.undo_stack.undo()
Undo ==
    /\ undo_stack.index > 0
    /\ \E cmd \in {undo_stack.commands[undo_stack.index]} :
          \E r \in {UndoCommand(cmd, Cur, name)} :
              /\ Install(r.state)
              /\ name' = r.name
              /\ call' = Called("undo", cmd.id, Identity, << >>, << >>, FALSE,
                                FALSE, cmd)
    /\ undo_stack' = [undo_stack EXCEPT !.index = @ - 1]
    /\ clean' = (undo_stack'.index = undo_stack'.clean_index)
    /\ UndoFrame
    /\ UNCHANGED ops

\* view.undo_stack.redo()
Redo ==
    /\ undo_stack.index < Len(undo_stack.commands)
    /\ \E cmd \in {undo_stack.commands[undo_stack.index + 1]} :
          \E r \in {RedoCommand(cmd, Cur, name)} :
              /\ Install(r.state)
              /\ name' = r.name
              /\ undo_stack' = [undo_stack EXCEPT !.index = @ + 1,
                                   !.commands[undo_stack.index + 1] = r.command]
              /\ call' = Called("redo", cmd.id, Identity, << >>, << >>, FALSE,
                                FALSE, cmd)
    /\ clean' = (undo_stack'.index = undo_stack'.clean_index)
    /\ UndoFrame
    /\ UNCHANGED ops

\* the joint vectors a positioner is sent to: every joint to the same value
MoveTargets(n) == {q \in JointVectors(n) : \A k \in 1..n : q[k] = q[1]}

\* the stacks the user can select
StackKeys == {"Fixed", "Pair", "Swapped"}

\* an instrument with the stack Pair loaded, the auxiliary chain on the base
\* of the description or rebased, and nothing on the undo stack
UndoInit ==
    /\ \E m \in Bases :
        LET r == ChangeBaseMatrix(LoadPositioningStack(Fresh, FirstKey, "Pair").state,
                                  "A", m)
        IN  /\ base = r.base
            /\ offset = r.offset
            /\ set_point = r.set_point
            /\ locked = r.locked
            /\ ignore_limits = r.ignore_limits
            /\ fixed = r.fixed
            /\ auxiliary = r.auxiliary
            /\ link_matrix = r.link_matrix
            /\ tool_link = r.tool_link
            /\ call = Called("changeBaseMatrix", "A", m, << >>, << >>, FALSE, FALSE,
                            << >>)
    /\ name = "Pair"
    /\ ret = Identity
    /\ delegated = << >>
    /\ twin = Identity
    /\ ops = 0
    /\ alignment = FALSE
    /\ measurement_points = 0
    /\ simulation = None
    /\ detached = 0
    /\ recent_projects = << >>
    /\ clean = TRUE
    /\ save_path = ""
    /\ returned = None
    /\ jaws = DescribedJaws
    /\ detector = DescribedDetector
    /\ wrapped = [c \in Chains |-> {}]
    /\ undo_stack = EmptyUndoStack
    /\ script = NoScript

UndoNext ==
    \/ \E k \in 1..NumberOfLinks(Cur) :
          Push(NewLockJoint(Cur, name, k, ~LockState(Cur)[k]))
    \/ \E k \in 1..NumberOfLinks(Cur) :
          Push(NewIgnoreJointLimits(Cur, name, k, ~IgnoreState(Cur)[k]))
    \/ \E q \in MoveTargets(NumberOfLinks(Cur)), il \in BOOLEAN :
          Push(NewMovePositioner(Cur, name, q, il))
    \/ \E k \in StackKeys \ {name} : Push(NewChangePositioningStack(Cur, name, k))
    \/ Undo
    \/ Redo

SpecUndo == UndoInit /\ [][UndoNext]_vars

(* ------------------- calls that can raise an error ------------------- *)
\* positioner in self.auxiliary
IsAuxiliary(s, c) == \E k \in 1..Len(s.auxiliary) : s.auxiliary[k] = c

\* a changeBaseMatrix that assigns the base before it looks the chain up
TryChangeBaseMatrixAssigningFirst(s, c, m) ==
    IF ~IsAuxiliary(s, c)
    THEN [state |-> [s EXCEPT !.base[c] = m], raised |-> "ValueError"]
    ELSE [state |-> ChangeBaseMatrix(s, c, m), raised |-> NoError]

\* PositioningStack.changeBaseMatrix(positioner, matrix) for any chain:
\* self.auxiliary.index(positioner) raises ValueError before anything is
\* assigned when the chain is not an auxiliary of the stack
TryChangeBaseMatrix(s, c, m) ==
    IF ~IsAuxiliary(s, c)
    THEN [state |-> s, raised |-> "ValueError"]
    ELSE [state |-> ChangeBaseMatrix(s, c, m), raised |-> NoError]

\* the stack keys a caller asks for: those of the description and one that
\* the description does not have
RequestedKeys == DOMAIN PositioningStacks \cup {"Absent"}

\* what the calls below leave alone
LoadFrame ==
    /\ UNCHANGED << alignment, measurement_points, simulation, detached,
                    recent_projects, save_path, clean >>
    /\ UNCHANGED << jaws, detector, wrapped, script, undo_stack, ret, delegated,
                    twin >>

\* instrument.loadPositioningStack(stack_key); before keeps the stack and the
\* name of the stack that were current when the call was made
CallLoadPositioningStack(stack_key) ==
    /\ ops < MaxOps
    /\ \E r \in {LoadPositioningStack(Cur, name, stack_key)} :
          /\ Install(r.state)
          /\ name' = r.name
          /\ returned' = r.raised
    /\ call' = Called("loadPositioningStack", stack_key, Identity, << >>, << >>,
                      FALSE, FALSE, [state |-> Cur, name |-> name])
    /\ ops' = ops + 1
    /\ LoadFrame

\* positioning_stack.changeBaseMatrix(positioner, matrix)
CallChangeBaseMatrix(c, m) ==
    /\ ops < MaxOps
    /\ \E r \in {TryChangeBaseMatrix(Cur, c, m)} :
          /\ Install(r.state)
          /\ returned' = r.raised
    /\ call' = Called("changeBaseMatrix", c, m, << >>, << >>, FALSE, FALSE, Cur)
    /\ ops' = ops + 1
    /\ UNCHANGED name
    /\ LoadFrame

\* positioning_stack.fkine(q)
CallFkine(q) ==
    /\ ops < MaxOps
    /\ Install(StackFkine(Cur, q, FALSE, TRUE).state)
    /\ returned' = NoError
    /\ call' = Called("fkine", name, Identity, q, << >>, FALSE, TRUE, Cur)
    /\ ops' = ops + 1
    /\ UNCHANGED name
    /\ LoadFrame

\* Instrument.__init__ has loaded the first stack of the description
LoadInit ==
    /\ \E r \in {LoadPositioningStack(Fresh, FirstKey, FirstKey)} :
          /\ base = r.state.base
          /\ offset = r.state.offset
          /\ set_point = r.state.set_point
          /\ locked = r.state.locked
          /\ ignore_limits = r.state.ignore_limits
          /\ fixed = r.state.fixed
          /\ auxiliary = r.state.auxiliary
          /\ link_matrix = r.state.link_matrix
          /\ tool_link = r.state.tool_link
          /\ name = r.name
          /\ returned = r.raised
    /\ call = Called("loadPositioningStack", FirstKey, Identity, << >>, << >>,
                     FALSE, FALSE, [state |-> Fresh, name |-> FirstKey])
    /\ ret = Identity
    /\ delegated = << >>
    /\ twin = Identity
    /\ ops = 0
    /\ alignment = FALSE
    /\ measurement_points = 0
    /\ simulation = None
    /\ detached = 0
    /\ recent_projects = << >>
    /\ clean = TRUE
    /\ save_path = ""
    /\ jaws = DescribedJaws
    /\ detector = DescribedDetector
    /\ wrapped = [c \in Chains |-> {}]
    /\ undo_stack = EmptyUndoStack
    /\ script = NoScript

LoadNext ==
    \/ \E stack_key \in RequestedKeys : CallLoadPositioningStack(stack_key)
    \/ \E c \in Chains, m \in Bases : CallChangeBaseMatrix(c, m)
    \/ \E q \in MoveTargets(NumberOfLinks(Cur)) : CallFkine(q)

SpecLoad == LoadInit /\ [][LoadNext]_vars

(* --------------------------- script template -------------------------- *)
\* Script.Key
ScriptKeys == {"script", "position", "count", "header", "mu_amps", "filename"}

\* longest list of nodes in a template and, less one, in a section
MaxNodes == 2

\* the keys templates are written with: three of Script.Key and one that
\* Script.Key does not have
TemplateKeys == {"script", "position", "count", "bogus"}

\* nodes of a parsed template: literal text, {{key}} (_EscapeNode) and
\* {{#key}}...{{/key}} (_SectionNode) with its own parsed nodes
TextNode == [type |-> "text", key |-> "", nodes |-> << >>]

EscapeNode(key) == [type |-> "escape", key |-> key, nodes |-> << >>]

SectionNode(key, nodes) == [type |-> "section", key |-> key, nodes |-> nodes]

\* the sequences over S of length lo to hi
SeqsOf(S, lo, hi) == UNION {[1..n -> S] : n \in lo..hi}

LeafNodes == {TextNode} \cup {EscapeNode(k) : k \in TemplateKeys}

\* pystache.parse(template)._parse_tree for the templates of at most n nodes
\* whose sections hold fewer than n nodes
Templates(n) ==
    SeqsOf(LeafNodes \cup {SectionNode(k, ns) :
                              k \in TemplateKeys,
                              ns \in SeqsOf(LeafNodes, 0, n - 1)},
           1, n)

RECURSIVE ScanTemplate(_, _)
\* the first loop of Script.__init__ over the first n nodes of the template:
\* the error raised, the keys seen and script_tag ('' is the empty tuple)
ScanTemplate(nodes, n) ==
    IF n = 0 THEN [raised |-> NoError, keys |-> {}, script_tag |-> << >>]
    ELSE LET prev == ScanTemplate(nodes, n - 1)
             parse == nodes[n]
         IN  IF prev.raised # NoError \/ parse.type = "text" THEN prev
             ELSE IF parse.key \notin ScriptKeys
             THEN [prev EXCEPT !.raised = "ValueError"]
             ELSE [raised |-> NoError, keys |-> prev.keys \cup {parse.key},
                   script_tag |-> IF parse.key = "script" THEN << parse >>
                                  ELSE prev.script_tag]

RECURSIVE ScanScriptTag(_, _, _)
\* the second loop of Script.__init__ over the first n nodes of script_tag:
\* the error raised, the keys seen so far and header_order
ScanScriptTag(nodes, keys, n) ==
    IF n = 0 THEN [raised |-> NoError, keys |-> keys, header_order |-> << >>]
    ELSE LET prev == ScanScriptTag(nodes, keys, n - 1)
             node == nodes[n]
         IN  IF prev.raised # NoError \/ node.type # "escape" THEN prev
             ELSE IF node.key \notin ScriptKeys
             THEN [prev EXCEPT !.raised = "ValueError"]
             ELSE [raised |-> NoError, keys |-> prev.keys \cup {node.key},
                   header_order |-> Append(prev.header_order, node.key)]

\* what Script(template) did: the error it raised, or header_order and keys
Built(template, raised, header_order, keys) ==
    [template |-> template, built |-> TRUE, raised |-> raised,
     header_order |-> header_order, keys |-> keys]

\* Script.__init__(template) for a template that parses. A {{script}}
\* variable is taken for script_tag like a section, and it has no .parsed
NewScript(template) ==
    LET first == ScanTemplate(template, Len(template))
    IN  IF first.raised # NoError
        THEN Built(template, first.raised, << >>, first.keys)
        ELSE IF first.script_tag = << >>
        THEN Built(template, "ValueError", << >>, first.keys)
        ELSE IF first.script_tag[1].type # "section"
        THEN Built(template, "AttributeError", << >>, first.keys)
        ELSE LET tag    == first.script_tag[1]
                 second == ScanScriptTag(tag.nodes, first.keys, Len(tag.nodes))
             IN  IF second.raised # NoError
                 THEN Built(template, second.raised, second.header_order,
                            second.keys)
                 ELSE IF "position" \notin second.keys
                 THEN Built(template, "ValueError", second.header_order,
                            second.keys)
                 ELSE Built(template, NoError, second.header_order, second.keys)

\* Script(template) is called on the template at hand
ConstructScript ==
    /\ ~script.built
    /\ script' = NewScript(script.template)
    /\ UNCHANGED << stackVars, name, jaws, detector, wrapped, undo_stack >>
    /\ UNCHANGED << call, ret, delegated, twin, ops, alignment,
                    measurement_points, simulation, detached, recent_projects,
                    clean, save_path, returned >>

\* a template has been read and parsed; no script is built from it yet
TemplateInit ==
    /\ script \in {[template |-> t, built |-> FALSE] : t \in Templates(MaxNodes)}
    /\ base = Fresh.base
    /\ offset = Fresh.offset
    /\ set_point = Fresh.set_point
    /\ locked = Fresh.locked
    /\ ignore_limits = Fresh.ignore_limits
    /\ fixed = Fresh.fixed
    /\ auxiliary = Fresh.auxiliary
    /\ link_matrix = Fresh.link_matrix
    /\ tool_link = Fresh.tool_link
    /\ name = FirstKey
    /\ call = Called("init", "F", Identity, << >>, << >>, FALSE, FALSE, << >>)
    /\ ret = Identity
    /\ delegated = << >>
    /\ twin = Identity
    /\ ops = 0
    /\ alignment = FALSE
    /\ measurement_points = 0
    /\ simulation = None
    /\ detached = 0
    /\ recent_projects = << >>
    /\ clean = TRUE
    /\ save_path = ""
    /\ returned = None
    /\ jaws = DescribedJaws
    /\ detector = DescribedDetector
    /\ wrapped = [c \in Chains |-> {}]
    /\ undo_stack = EmptyUndoStack

ScriptNext == ConstructScript

SpecScript == TemplateInit /\ [][ScriptNext]_vars

(* ------------------------- properties of the stack -------------------- *)
\* pose of chain c with every joint at its resting value, under its current base
RestPose(s, c) ==
    MatMul(s.base[c],
           LinkProduct(c, [i \in 1..ChainNumberOfLinks(c) |-> RestValue],
                       ChainNumberOfLinks(c)))

AtRest(s, c) == \A i \in 1..ChainNumberOfLinks(c) : s.offset[c][i] = RestValue

\* the chain that precedes auxiliary[i] in the stack
Preceding(s, i) == IF i = 1 THEN s.fixed ELSE s.auxiliary[i - 1]

LastChain(s) == StackChains(s)[Len(StackChains(s))]

\* C1: after construction and any sequence of addPositioner and
\* changeBaseMatrix calls (and of the other stack operations), link_matrix
\* has as many entries as auxiliary.
C1_LinkMatrixLength == Len(link_matrix) = Len(auxiliary)

C1_Witness ==
    /\ call.op = "changeBaseMatrix"
    /\ Len(auxiliary) = 2
    /\ Len(link_matrix) = 2

\* C2: link_matrix[i] is the inverse of the resting pose of the chain that
\* precedes auxiliary[i], under that chain's current base, and tool_link is
\* the inverse of the resting pose of the last chain of the stack.
C2_CalibrationIsRestInverse ==
    /\ \A i \in 1..Len(auxiliary) :
          /\ i <= Len(link_matrix)
          /\ link_matrix[i] = Inverse(RestPose(Cur, Preceding(Cur, i)))
    /\ tool_link = Inverse(RestPose(Cur, LastChain(Cur)))

C2_Witness ==
    /\ call.op = "changeBaseMatrix"
    /\ Len(auxiliary) = 2
    /\ call.chain = auxiliary[1]
    /\ base[call.chain] # DefaultBase[call.chain]
    /\ link_matrix[2] = Inverse(RestPose(Cur, auxiliary[1]))

\* C3: the matrix fkine returns is the pose property read right after the
\* call, the chains were driven in stack order, and tool_pose is
\* pose @ tool_link.
C3_FkineReturnsPose ==
    call.op = "fkine" =>
        /\ ret = StackPose(Cur)
        /\ Len(delegated) = Len(StackChains(Cur))
        /\ \A k \in 1..Len(delegated) : delegated[k].chain = StackChains(Cur)[k]
        /\ ToolPose(Cur) = MatMul(ret, tool_link)

C3_Witness ==
    /\ call.op = "fkine"
    /\ Len(auxiliary) = 2
    /\ \E c \in Chains : ~AtRest(Cur, c)
    /\ ret # ChainPose(Cur, fixed)

RECURSIVE ConcatSlices(_, _)
ConcatSlices(calls, n) ==
    IF n = 0 THEN << >> ELSE ConcatSlices(calls, n - 1) \o calls[n].q

\* C4: fkine gives the fixed chain q[0:n_fixed] and each auxiliary the
\* contiguous slice that starts where the previous one ended and has that
\* chain's number of links; the slices together are the first numberOfLinks
\* entries of q, and ignore_locks and setpoint reach every chain unchanged.
C4_SlicesPartitionQ ==
    call.op = "fkine" =>
        /\ Len(delegated) = 1 + Len(auxiliary)
        /\ delegated[1].chain = fixed
        /\ delegated[1].start = 0
        /\ \A k \in 1..Len(delegated) :
              /\ k > 1 => delegated[k].chain = auxiliary[k - 1]
              /\ k > 1 => delegated[k].start = delegated[k - 1].end
              /\ delegated[k].end - delegated[k].start
                    = ChainNumberOfLinks(delegated[k].chain)
              /\ delegated[k].q
                    = [i \in 1..ChainNumberOfLinks(delegated[k].chain) |->
                          call.q[delegated[k].start + i]]
              /\ delegated[k].ignore_locks = call.ignore_locks
              /\ delegated[k].setpoint = call.setpoint
        /\ delegated[Len(delegated)].end = NumberOfLinks(Cur)
        /\ ConcatSlices(delegated, Len(delegated))
              = SubSeq(call.q, 1, NumberOfLinks(Cur))

C4_Witness ==
    /\ call.op = "fkine"
    /\ Len(auxiliary) = 2
    /\ delegated[1].q = << 1, 0 >>
    /\ delegated[2].q = << 1 >>
    /\ delegated[3].q = << 0 >>

\* C5: addPositioner appends the chain to auxiliary and one matrix to
\* link_matrix, the inverse of the resting pose of the chain that was last
\* before the call, and leaves that chain's set-points as they were.
C5_AddPositionerAppends ==
    [][call'.op = "addPositioner" =>
        /\ auxiliary' = Append(auxiliary, call'.chain)
        /\ Len(link_matrix') = Len(link_matrix) + 1
        /\ SubSeq(link_matrix', 1, Len(link_matrix)) = link_matrix
        /\ link_matrix'[Len(link_matrix')] = Inverse(RestPose(Cur, LastChain(Cur)))
        /\ set_point'[LastChain(Cur)] = set_point[LastChain(Cur)]]_vars

C5_Witness ==
    /\ call.op = "addPositioner"
    /\ Len(auxiliary) = 2
    /\ set_point[auxiliary[1]] # [i \in 1..ChainNumberOfLinks(auxiliary[1]) |-> RestValue]

Resting(c) == [i \in 1..ChainNumberOfLinks(c) |-> RestValue]

\* C6 as stated: addPositioner sets tool_link to the inverse of the attached
\* chain's resting pose and leaves that chain's set-points and joint values
\* as they were before the call.
C6_AddPositionerRestoresAttached ==
    [][call'.op = "addPositioner" =>
        /\ tool_link' = Inverse(RestPose(Cur, call'.chain))
        /\ set_point'[call'.chain] = set_point[call'.chain]
        /\ offset'[call'.chain] = offset[call'.chain]]_vars

\* C6 (amended): addPositioner sets tool_link to the inverse of the attached
\* chain's resting pose by resetting that chain: after the call every
\* set-point and joint value of the attached chain is the resting value.
C6_AddPositionerResetsAttached ==
    [][call'.op = "addPositioner" =>
        /\ tool_link' = Inverse(RestPose(Cur, call'.chain))
        /\ set_point'[call'.chain] = Resting(call'.chain)
        /\ offset'[call'.chain] = Resting(call'.chain)]_vars

C6_Witness ==
    /\ call.op = "addPositioner"
    /\ call.before # Resting(call.chain)
    /\ set_point[call.chain] = Resting(call.chain)
    /\ tool_link = Inverse(RestPose(Cur, call.chain))

\* C7: changeBaseMatrix(chain, M), chain at auxiliary index i, sets the
\* chain's base to M and recomputes link_matrix[i+1] when the chain is not
\* the last auxiliary and tool_link when it is; the other link_matrix
\* entries, tool_link in the first case, the auxiliary list and the
\* set-points are unchanged.
C7_ChangeBaseRecomputesDownstream ==
    [][call'.op = "changeBaseMatrix" =>
        LET c == call'.chain
            i == AuxIndex(Cur, c)
        IN  /\ base' = [base EXCEPT ![c] = call'.matrix]
            /\ auxiliary' = auxiliary
            /\ fixed' = fixed
            /\ set_point' = set_point
            /\ Len(link_matrix') = Len(link_matrix)
            /\ IF i < Len(auxiliary)
               THEN /\ tool_link' = tool_link
                    /\ \A j \in 1..Len(link_matrix) :
                          j # i + 1 => link_matrix'[j] = link_matrix[j]
                    /\ link_matrix'[i + 1]
                          = Inverse(MatMul(call'.matrix,
                                LinkProduct(c, Resting(c), ChainNumberOfLinks(c))))
               ELSE /\ link_matrix' = link_matrix
                    /\ tool_link'
                          = Inverse(MatMul(call'.matrix,
                                LinkProduct(c, Resting(c), ChainNumberOfLinks(c))))]_vars

C7_Witness ==
    /\ call.op = "changeBaseMatrix"
    /\ Len(auxiliary) = 2
    /\ call.chain = auxiliary[1]
    /\ call.matrix # DefaultBase[call.chain]
    /\ base[call.chain] = call.matrix
    /\ link_matrix[2] # Inverse(MatMul(DefaultBase[call.chain],
                            LinkProduct(call.chain, Resting(call.chain),
                                        ChainNumberOfLinks(call.chain))))

\* C8 as stated: with a fixed chain and one auxiliary chain, both at rest,
\* the stack's pose equals the fixed chain's pose.
C8_PoseIsFixedPose ==
    (Len(auxiliary) = 1 /\ AtRest(Cur, fixed) /\ AtRest(Cur, auxiliary[1]))
        => StackPose(Cur) = ChainPose(Cur, fixed)

\* C8 (amended): with a fixed chain and one auxiliary chain, both at rest,
\* the stack's pose equals the auxiliary chain's pose: the calibration
\* transform cancels the fixed chain's resting pose.
C8_PoseIsAuxiliaryPose ==
    (Len(auxiliary) = 1 /\ AtRest(Cur, fixed) /\ AtRest(Cur, auxiliary[1]))
        => StackPose(Cur) = ChainPose(Cur, auxiliary[1])

C8_Witness ==
    /\ call.op = "fkine"
    /\ Len(auxiliary) = 1
    /\ AtRest(Cur, fixed)
    /\ AtRest(Cur, auxiliary[1])
    /\ ChainPose(Cur, fixed) # ChainPose(Cur, auxiliary[1])
    /\ ret = ChainPose(Cur, auxiliary[1])

\* C9: with locks honoured, two fkine calls made from the same state with
\* joint vectors that differ only at locked links return the same pose.
C9_LockedEntriesIgnored ==
    (call.op = "fkine" /\ ~call.ignore_locks) => twin = ret

C9_Witness ==
    /\ call.op = "fkine"
    /\ ~call.ignore_locks
    /\ call.q2 # call.q
    /\ Len(auxiliary) >= 1
    /\ twin = ret

\* C10: configuration, set_points, bounds and links have numberOfLinks
\* entries each: those of the fixed chain followed by those of each
\* auxiliary in attach order, entry k of each referring to the same link.
C10_AccessorsConcatenate ==
    LET chains == StackChains(Cur)
    IN  /\ Len(StackConfiguration(Cur)) = NumberOfLinks(Cur)
        /\ Len(StackSetPoints(Cur)) = NumberOfLinks(Cur)
        /\ Len(StackBounds(Cur)) = NumberOfLinks(Cur)
        /\ Len(StackLinks(Cur)) = NumberOfLinks(Cur)
        /\ \A j \in 1..Len(chains) : \A i \in 1..ChainNumberOfLinks(chains[j]) :
              LET k == SumLinks(chains, j - 1) + i
              IN  /\ StackLinks(Cur)[k] = << chains[j], i >>
                  /\ StackConfiguration(Cur)[k] = offset[chains[j]][i]
                  /\ StackSetPoints(Cur)[k] = set_point[chains[j]][i]
                  /\ StackBounds(Cur)[k] = << ChainLinks[chains[j]][i].lower_limit,
                                              ChainLinks[chains[j]][i].upper_limit >>

C10_Witness ==
    /\ auxiliary = << "A", "B" >>
    /\ StackSetPoints(Cur) = << 0, 1, 1, 1 >>
    /\ StackConfiguration(Cur) = << 0, 1, 1, 0 >>
    /\ Len(StackBounds(Cur)) = 4

\* C11: stack.set_points = q writes q[i] into the set_point of the i-th link
\* in stack order (links beyond the end of q keep theirs) and leaves every
\* link's joint value, lock and ignore-limits flag, link_matrix, tool_link
\* and the stack pose as they were.
C11_SetPointsOnlyWritesSetPoints ==
    [][call'.op = "set_points" =>
        /\ \A k \in 1..NumberOfLinks(Cur) :
              StackSetPoints(Cur')[k] =
                  IF k <= Len(call'.q) THEN call'.q[k] ELSE StackSetPoints(Cur)[k]
        /\ StackConfiguration(Cur') = StackConfiguration(Cur)
        /\ offset' = offset
        /\ locked' = locked
        /\ ignore_limits' = ignore_limits
        /\ link_matrix' = link_matrix
        /\ tool_link' = tool_link
        /\ StackPose(Cur') = StackPose(Cur)]_vars

C11_Witness ==
    /\ call.op = "set_points"
    /\ Len(auxiliary) >= 1
    /\ Len(call.q) = NumberOfLinks(Cur)
    /\ call.q # call.before
    /\ StackSetPoints(Cur) = call.q
    /\ StackSetPoints(Cur) # StackConfiguration(Cur)
    /\ StackPose(Cur) # Identity
(* ----------------------- properties of the simulation ----------------- *)
\* the IKResults of the results model.simulation has published
PublishedIK ==
    IF simulation = None THEN {}
    ELSE {simulation.results[k].ik_result : k \in 1..Len(simulation.results)}

\* C12: every IKResult whose status is Converged has position_converged and
\* orientation_converged both true, and a result with either flag false has
\* status Failed.
C12_ConvergedRequiresBothFlags ==
    \A r \in PublishedIK :
        /\ r.status = "Converged" =>
              r.position_converged /\ r.orientation_converged
        /\ ~(r.position_converged /\ r.orientation_converged) =>
              r.status = "Failed"

\* the published results are those of the first targets, in submission order,
\* and the worker has one target in flight at most
ResultsArePrefix(e) ==
    /\ Len(e.results) <= e.count
    /\ \A k \in 1..Len(e.results) : e.results[k].label = k
    /\ Len(e.results) <= e.target
    /\ IsRunning(e) => e.target = Len(e.results) + (IF e.step > 0 THEN 1 ELSE 0)

\* C13 (as stated): the published results are a prefix of the submission
\* order, of length at most N, and their number is N if and only if the run
\* is Completed.
C13_AllResultsIffCompleted ==
    simulation # None =>
        /\ ResultsArePrefix(simulation)
        /\ Len(simulation.results) = simulation.count <=>
              simulation.state = "Completed"

\* C13 (amended): the published results are a prefix of the submission order,
\* of length at most N; a Completed run has N results, and a run with N
\* results is Completed, or Aborted after an abort request seen once the
\* result of the last target was computed.
C13_CompletedHasAllResults ==
    simulation # None =>
        /\ ResultsArePrefix(simulation)
        /\ simulation.state = "Completed" =>
              Len(simulation.results) = simulation.count
        /\ Len(simulation.results) = simulation.count =>
              \/ simulation.state = "Completed"
              \/ simulation.state = "Aborted" /\ simulation.abort

C13_Witness ==
    /\ simulation # None
    /\ simulation.state = "Aborted"
    /\ simulation.count >= 2
    /\ Len(simulation.results) = simulation.count
    /\ simulation.results[1].ik_result # simulation.results[2].ik_result

\* a result with its IKResult and joint report, and with the metrics of both
\* oracles exactly when the run asked for them
FullyPopulated(r, e) ==
    /\ r.ik_result \in IKOutcomes
    /\ r.formatted_joint_report # None
    /\ r.formatted_joint_report.values = r.ik_result.q
    /\ r.alignment_index = 0
    /\ (r.path_length # None) = e.compute_path_length
    /\ (r.collision_flags # None) = e.compute_path_length

\* model.simulation is the same run before and after the step
SameRun ==
    /\ simulation # None
    /\ simulation' # None
    /\ simulation'.run = simulation.run

\* C14: whenever abort() is requested, every result in the results collection
\* is fully populated; from the request on no further target is started, and
\* the only result that is still published is the complete result of the
\* target in flight, when its IKResult was already computed.
C14_AbortIsAtomicPerTarget ==
    /\ [](simulation # None =>
            \A k \in 1..Len(simulation.results) :
                FullyPopulated(simulation.results[k], simulation))
    /\ [][SameRun /\ simulation.abort =>
            /\ simulation'.target = simulation.target
            /\ \/ simulation'.results = simulation.results
               \/ /\ simulation.step >= 2
                  /\ Len(simulation'.results) = Len(simulation.results) + 1
                  /\ SubSeq(simulation'.results, 1, Len(simulation.results)) =
                         simulation.results
                  /\ simulation'.results[Len(simulation'.results)].label =
                         simulation.target
                  /\ simulation'.results[Len(simulation'.results)].ik_result =
                         simulation.pending.ik_result]_vars

C14_Witness ==
    /\ simulation # None
    /\ call.op = "engine"
    /\ call.chain = "abort"
    /\ simulation.state = "Aborted"
    /\ simulation.compute_path_length
    /\ Len(simulation.results) >= 1
    /\ simulation.target = Len(simulation.results) + 1

\* the steps of the life of a run: Running goes on or ends, an ended run stays
Lifecycle ==
    {<< "Running", "Running" >>, << "Running", "Completed" >>,
     << "Running", "Aborted" >>, << "Running", "Failed" >>,
     << "Completed", "Completed" >>, << "Aborted", "Aborted" >>,
     << "Failed", "Failed" >>}

\* C15: a simulation is created Idle and started at once; from Running it
\* ends Completed, Aborted or Failed and stays there with its results; it
\* ends Aborted only with its abort flag raised while it was running, and
\* the results published before remain.
C15_LifecycleOfARun ==
    /\ [](/\ \A cpl \in BOOLEAN :
                /\ CreateSimulation(0, cpl, FALSE, FALSE).state = "Idle"
                /\ Start(CreateSimulation(0, cpl, FALSE, FALSE)).state = "Running"
          /\ simulation # None =>
                /\ simulation.state \in {"Running", "Completed", "Aborted", "Failed"}
                /\ simulation.state = "Aborted" => simulation.abort)
    /\ [][/\ SameRun =>
                /\ << simulation.state, simulation'.state >> \in Lifecycle
                /\ simulation'.state = "Aborted" /\ simulation.state = "Running" =>
                      simulation.abort
                /\ Terminal(simulation) =>
                      simulation'.results = simulation.results
                /\ Len(simulation.results) <= Len(simulation'.results)
                /\ SubSeq(simulation'.results, 1, Len(simulation.results)) =
                      simulation.results
          /\ simulation' # None /\ ~SameRun =>
                /\ simulation'.state = "Running"
                /\ simulation'.results = << >>
                /\ ~simulation'.abort]_vars

C15_Witness ==
    /\ simulation # None
    /\ call.op = "stopSimulation"
    /\ simulation.state = "Completed"
    /\ simulation.abort
    /\ Len(simulation.results) = simulation.count

\* C16: a solve that does not converge gives its target a result of its own,
\* with the status Failed of the solve, and the run goes on: without an abort
\* request a run never is Failed or Aborted, has a further target to take up
\* as long as it is Running between two targets, and ends Completed with N
\* results.
C16_FailedSolveDoesNotStopRun ==
    /\ [](simulation # None /\ ~simulation.abort =>
            /\ simulation.state \in {"Running", "Completed"}
            /\ ResultsArePrefix(simulation)
            /\ IsRunning(simulation) /\ simulation.step = 0 =>
                  simulation.target < simulation.count
            /\ simulation.state = "Completed" =>
                  Len(simulation.results) = simulation.count)
    /\ [][SameRun /\ ~simulation.abort /\ simulation.step = 3
            /\ simulation'.step = 0 =>
            /\ simulation'.results = Append(simulation.results, simulation.pending)
            /\ simulation.pending.ik_result \in IKOutcomes
            /\ simulation.pending.label = simulation.target
            /\ simulation'.state =
                  IF simulation.target < simulation.count THEN "Running"
                  ELSE "Completed"]_vars

C16_Witness ==
    /\ simulation # None
    /\ ~simulation.abort
    /\ simulation.state = "Completed"
    /\ simulation.count >= 2
    /\ Len(simulation.results) = simulation.count
    /\ simulation.results[1].ik_result.status = "Failed"
    /\ simulation.results[2].ik_result = converged

RunningSimulations ==
    detached + (IF simulation # None /\ IsRunning(simulation) THEN 1 ELSE 0)

\* runSimulation starts a new simulation over the model's points exactly when
\* the alignment is set, there is a point and model.simulation is not
\* running, and else leaves model.simulation as it was
RunSimulationGuards ==
    call'.op = "runSimulation" =>
        IF alignment /\ measurement_points > 0
              /\ ~(simulation # None /\ IsRunning(simulation))
        THEN /\ simulation' # None
             /\ ~SameRun
             /\ simulation'.state = "Running"
             /\ simulation'.count = measurement_points
             /\ simulation'.results = << >>
        ELSE simulation' = simulation

\* C18 (as stated): runSimulation creates and starts a simulation only when
\* the alignment is set, a measurement point exists and no simulation is
\* running, and leaves model.simulation as it was otherwise; at most one
\* simulation is running at any time.
C18_AtMostOneRunning ==
    /\ [][RunSimulationGuards]_vars
    /\ [](RunningSimulations <= 1)

\* C18 (amended): runSimulation creates and starts a simulation only when the
\* alignment is set, a measurement point exists and model.simulation is not
\* running, and leaves model.simulation as it was otherwise; the model lets
\* go of a running simulation only in resetSimulation (called by openProject,
\* createProject and the change of the instrument), which has asked it to
\* abort, and every simulation started while that one still runs is started
\* after such a reset.
C18_NeverReplacesRunning ==
    /\ [][RunSimulationGuards]_vars
    /\ [][simulation # None /\ IsRunning(simulation) /\ ~SameRun =>
            /\ call'.op \in {"openProject", "createProject", "changeInstrument"}
            /\ simulation' = None
            /\ detached' = detached + 1]_vars

C18_Witness ==
    /\ call.op = "runSimulation"
    /\ simulation # None
    /\ IsRunning(simulation)
    /\ simulation.run = ops
    /\ detached = 1
    /\ RunningSimulations = 2

(* ------------------------ properties of the project ------------------- *)
NoDuplicates(seq) ==
    \A i \in 1..Len(seq), j \in 1..Len(seq) : seq[i] = seq[j] => i = j

\* seq without the entries equal to x
RECURSIVE Without(_, _)
Without(seq, x) ==
    IF seq = << >> THEN << >>
    ELSE IF seq[1] = x THEN Without(Tail(seq), x)
    ELSE << seq[1] >> \o Without(Tail(seq), x)

\* C19: starting from a duplicate-free list of at most recent_list_size
\* entries, after every updateRecentProjects(f) the list has no duplicates
\* and at most recent_list_size entries, has f at index 0, and goes on with
\* the other entries it had, in the order they had, as far as there is room.
C19_RecentProjectsList ==
    /\ [](NoDuplicates(recent_projects) /\ Len(recent_projects) <= recent_list_size)
    /\ [][call'.op = "updateRecentProjects" =>
            /\ recent_projects'[1] = call'.q[1]
            /\ LET others == Without(recent_projects, call'.q[1])
               IN  Tail(recent_projects') =
                       SubSeq(others, 1, Min(Len(others), recent_list_size - 1))]_vars

C19_Witness ==
    /\ call.op = "updateRecentProjects"
    /\ ops >= 2
    /\ Len(call.before) = recent_list_size
    /\ Contains(call.before, call.q[1])
    /\ call.before[1] # call.q[1]
    /\ Contains(recent_projects, FilesInOrder[recent_list_size + 1])
    /\ Len(recent_projects) = recent_list_size

\* C20: confirmSave returns True exactly when, on return, the undo stack is
\* clean or the user replied Discard.
C20_TrueOnlyIfSavedOrDiscarded ==
    call.op = "confirmSave" =>
        (returned = TRUE) = (clean \/ call.chain = "Discard")

(* -------------------- properties of dialog and presenter -------------- *)
\* C21: closing the simulation dialog while the simulation runs calls abort()
\* exactly once when the prompt is answered with Stop, and with any other
\* answer calls nothing and leaves the simulation running as it was.
C21_CloseAbortsOnlyOnStop ==
    [][call'.op = "close" /\ simulation # None /\ IsRunning(simulation) =>
          IF call'.chain = "Stop"
          THEN /\ call'.q = << "abort" >>
               /\ simulation' = [simulation EXCEPT !.abort = TRUE]
          ELSE /\ call'.chain \in CloseReplies
               /\ call'.q = << >>
               /\ simulation' = simulation
               /\ IsRunning(simulation')]_vars

C21_Witness ==
    /\ call.op = "close"
    /\ call.chain = "Stop"
    /\ call.q = << "abort" >>
    /\ simulation # None
    /\ IsRunning(simulation)
    /\ simulation.abort
    /\ Len(simulation.results) >= 1

FkineCalledOn(p) ==
    \/ call.op = "positioner.fkine" /\ call.chain = p
    \/ call.op = "fkine" /\ InStack(Cur, p)
    \/ call.op = "changeBaseMatrix" /\ call.chain = p

\* C22: right after a fkine call on the positioner of the jaws, and right
\* after that positioner is assigned, beam_direction is R * initial_direction
\* and beam_source is R * initial_source + t, R and t the rotation and the
\* translation of the positioner's pose; likewise diffracted_beam is
\* R * initial_beam for the detector and its positioner.
C22_BeamsFollowPose ==
    /\ (jaws.positioner # NoPositioner
          /\ (FkineCalledOn(jaws.positioner) \/ call.op = "jaws.positioner")) =>
          LET pose == ChainPose(Cur, jaws.positioner)
          IN  /\ jaws.beam_direction = Rotate(pose, jaws.initial_direction)
              /\ jaws.beam_source =
                    VecAdd(Rotate(pose, jaws.initial_source), Translation(pose))
    /\ (detector.positioner # NoPositioner
          /\ (FkineCalledOn(detector.positioner) \/ call.op = "detector.positioner")) =>
          detector.diffracted_beam =
              Rotate(ChainPose(Cur, detector.positioner), detector.initial_beam)

C22_Witness ==
    /\ call.op = "fkine"
    /\ jaws.positioner # NoPositioner
    /\ InStack(Cur, jaws.positioner)
    /\ detector.positioner \notin {NoPositioner, jaws.positioner}
    /\ ChainPose(Cur, jaws.positioner).r # 0
    /\ Translation(ChainPose(Cur, jaws.positioner)) # Vec(0, 0)
    /\ jaws.beam_direction # jaws.initial_direction
    /\ jaws.beam_source # Rotate(ChainPose(Cur, jaws.positioner), jaws.initial_source)
    /\ detector.diffracted_beam # detector.initial_beam

\* every chain of the stack is at its resting configuration
StackAtRest(s) ==
    \A k \in 1..Len(StackChains(s)) : AtRest(s, StackChains(s)[k])

\* C23: with every chain of the stack at its resting configuration,
\* tool_pose is the identity transform, whatever bases the chains were given.
C23_ToolPoseAtRestIsIdentity ==
    StackAtRest(Cur) => ToolPose(Cur) = Identity

C23_Witness ==
    /\ call.op = "changeBaseMatrix"
    /\ Len(auxiliary) = 2
    /\ StackAtRest(Cur)
    /\ base[auxiliary[1]] # DefaultBase[auxiliary[1]]
    /\ StackPose(Cur) # Identity
    /\ StackPose(Cur) # ChainPose(Cur, fixed)
    /\ ToolPose(Cur) = Identity

\* the flags a LockJoint or an IgnoreJointLimits command writes
Flags(s, id) == IF id = "LockJoint" THEN LockState(s) ELSE IgnoreState(s)

\* the command the undo stack has just run was built to set one flag
RanFlagCommand(c) ==
    /\ c.op \in {"push", "redo", "undo"}
    /\ c.chain \in {"LockJoint", "IgnoreJointLimits"}

\* C24 as stated: every redo of a LockJoint (IgnoreJointLimits) command built
\* for link index i with value v sets the flag of link i to v and the flag of
\* every other link to the value captured at construction, and every undo
\* sets every flag to the value captured at construction, set-points and
\* joint values being left alone.
C24_RedoSetsOneFlag ==
    [][RanFlagCommand(call') =>
          /\ Flags(Cur', call'.chain) =
                IF call'.op = "undo" THEN call'.before.old_state
                ELSE [call'.before.old_state EXCEPT
                         ![call'.before.index] = call'.before.value]
          /\ StackSetPoints(Cur') = StackSetPoints(Cur)
          /\ offset' = offset]_vars

\* C24 amended: the redo run by the push sets the flag of link i to v and
\* leaves every other flag as it was at construction; a later redo sets the
\* flags to the command's new state, which a command of the same kind merged
\* into it by the undo stack has replaced by its own; undo sets the flags to
\* the state captured at construction. The command on top of the undo stack
\* has its new state in force and the command that would be redone next its
\* old state, and no redo or undo touches a set-point or a joint value.
C24_FlagsFollowCommand ==
    /\ [](\A k \in 1..Len(undo_stack.commands) :
            undo_stack.commands[k].id \in {"LockJoint", "IgnoreJointLimits"} =>
              /\ k = undo_stack.index =>
                    Flags(Cur, undo_stack.commands[k].id) =
                        undo_stack.commands[k].new_state
              /\ k = undo_stack.index + 1 =>
                    Flags(Cur, undo_stack.commands[k].id) =
                        undo_stack.commands[k].old_state)
    /\ [][RanFlagCommand(call') =>
            /\ call'.op = "push" =>
                  /\ call'.before.old_state = Flags(Cur, call'.chain)
                  /\ Flags(Cur', call'.chain) =
                        [call'.before.old_state EXCEPT
                            ![call'.before.index] = call'.before.value]
            /\ call'.op = "redo" =>
                  Flags(Cur', call'.chain) = call'.before.new_state
            /\ call'.op = "undo" =>
                  Flags(Cur', call'.chain) = call'.before.old_state
            /\ StackSetPoints(Cur') = StackSetPoints(Cur)
            /\ offset' = offset]_vars

\* a merged command has been undone and redone: the flags are those of the
\* command merged into it, more than one flag away from the captured state
C24_Witness ==
    /\ call.op = "redo" /\ call.chain = "LockJoint"
    /\ call.before.new_state #
          [call.before.old_state EXCEPT ![call.before.index] = call.before.value]
    /\ LockState(Cur) = call.before.new_state
    /\ LockState(Cur) # call.before.old_state

C26_LockedLinksStay ==
    [][(call'.op \in {"push", "redo", "undo"} /\ call'.chain = "MovePositioner"
           /\ ~call'.before.ignore_locks) =>
          /\ call'.op # "undo" =>
                \A k \in 1..NumberOfLinks(Cur) :
                    LockState(Cur)[k] =>
                        StackConfiguration(Cur')[k] = StackConfiguration(Cur)[k]
          /\ call'.op = "undo" =>
                StackSetPoints(Cur') = call'.before.move_from]_vars

\* C28: changeBaseMatrix(chain, M) for a chain that is not an auxiliary of the
\* stack, the fixed chain included, raises an error and changes nothing: the
\* base of the chain, link_matrix, tool_link and every set-point and joint
\* value are as before the call; for an auxiliary chain no error is raised.
C28_RebaseOfNonAuxiliaryFails ==
    call.op = "changeBaseMatrix" =>
        IF IsAuxiliary(call.before, call.chain)
        THEN returned = NoError
        ELSE returned = "ValueError" /\ Cur = call.before

\* the fixed chain of a moved stack of two chains was named, with a base it
\* does not have
C28_Witness ==
    /\ call.op = "changeBaseMatrix" /\ call.chain = fixed
    /\ returned = "ValueError"
    /\ Len(auxiliary) = 1 /\ ~StackAtRest(Cur)
    /\ call.matrix # base[fixed]
    /\ Cur = call.before

\* C29: a loadPositioningStack(stack_key) that fails because the stack key or
\* one of its positioner keys is not resolved leaves the stack selected before
\* the call current; one that succeeds makes current a stack whose fixed
\* chain is the first listed positioner and whose auxiliaries are the others
\* in the listed order.
C29_FailedLoadKeepsStack ==
    call.op = "loadPositioningStack" =>
        IF returned # NoError
        THEN Cur = call.before.state /\ name = call.before.name
        ELSE /\ name = call.chain
             /\ StackChains(Cur) = PositioningStacks[call.chain]

\* the variable tags among the nodes, in their order
RECURSIVE VariableTags(_, _)
VariableTags(nodes, n) ==
    IF n = 0 THEN << >>
    ELSE IF nodes[n].type = "escape"
         THEN Append(VariableTags(nodes, n - 1), nodes[n].key)
         ELSE VariableTags(nodes, n - 1)

\* the script sections of the template
ScriptSections(template) ==
    {k \in 1..Len(template) :
        template[k].type = "section" /\ template[k].key = "script"}

\* the template has a script section with a position tag inside it
PositionInsideScript(template) ==
    \E k \in ScriptSections(template) :
        \E j \in 1..Len(template[k].nodes) :
            template[k].nodes[j] = EscapeNode("position")

\* every section and variable tag of the template has a key of Script.Key
AllKeysKnown(template) ==
    \A k \in 1..Len(template) :
        /\ template[k].type # "text" => template[k].key \in ScriptKeys
        /\ \A j \in 1..Len(template[k].nodes) :
              template[k].nodes[j].type # "text" =>
                  template[k].nodes[j].key \in ScriptKeys

\* C30: Script(template) raises ValueError unless the template has a script
\* section with a position tag inside that section, and raises ValueError
\* when a section or variable tag has a key outside Script.Key; when it
\* succeeds, header_order lists the variable tags inside the script section
\* in template order.
C30_ScriptChecksTemplate ==
    script.built =>
        /\ ~PositionInsideScript(script.template) => script.raised = "ValueError"
        /\ ~AllKeysKnown(script.template) => script.raised = "ValueError"
        /\ script.raised = NoError =>
              \E k \in ScriptSections(script.template) :
                  script.header_order =
                      VariableTags(script.template[k].nodes,
                                   Len(script.template[k].nodes))
====
